---- MODULE Spec2Model ----
(***************************************************************************)
(* Model of the Darkstar batch contract (src/stellar/batch): the CoinJoin  *)
(* denomination pools of coinjoin.rs and the public surface of lib.rs      *)
(* (initialize, private_swap, execute_coinjoin_mixing).                    *)
(*                                                                         *)
(* Amounts are counted in units of 10^6 stroops, so that the i128          *)
(* arithmetic of the contract stays inside TLC's integers: the source's    *)
(* 10_000_000 is 10 here, 2_000_000_000 is 2000, 10_000_000_000 is 10000.  *)
(* Every formula of the source (fee, constant product, equal share,        *)
(* slippage) is kept as written, on these units.                           *)
(*                                                                         *)
(* One contract invocation is one action.  An invocation that returns Err  *)
(* or traps (a failed require_auth, a failed token transfer, a failed call *)
(* of the pair) is rolled back by the host: the storage and the balances   *)
(* keep their values.  The variable last records what the latest           *)
(* invocation did.                                                         *)
(***************************************************************************)
EXTENDS Integers, Sequences, FiniteSets, TLC

(* ------------------------------ bounds -------------------------------- *)

\* private_swap calls accepted over a behaviour
MaxTotalDeposits == 4
\* token_in/token_out units each user holds initially
UserFunds == 20000
\* units of each token the pair holds initially
PairLiquidity == 5000
\* deposits pending in the Small pool at the start of a backlog behaviour
MaxBacklog == 10
\* the longest list handed to the calculator, the sort and the selector
MaxListLen == 4
\* deposit instructions accepted by the Solana program over a behaviour
MaxPoolDeposits == 3
\* units of the mint the depositor's token account holds initially
DepositorFunds == 50

(* -------------------------- program constants ------------------------- *)

MinimumPoolSize == 3
MaximumPoolSize == 10
FeeBasisPoints == 10
\* an expiry of one day
ExpiryDeltaOneDay == 24 * 60 * 60

ExpiryDelta == 48 * 60 * 60

(* ------------------------- Denomination (4.A) ------------------------- *)

Denominations == {"Small", "Medium", "Large", "ExtraLarge"}

DenominationValue(d) ==
    CASE d = "Small" -> 10
      [] d = "Medium" -> 100
      [] d = "Large" -> 1000
      [] d = "ExtraLarge" -> 10000

\* the discriminants of the enum declaration
DenominationDiscriminant(d) ==
    CASE d = "Small" -> 10
      [] d = "Medium" -> 100
      [] d = "Large" -> 1000
      [] d = "ExtraLarge" -> 2000

DenominationSymbol(d) ==
    CASE d = "Small" -> "10"
      [] d = "Medium" -> "100"
      [] d = "Large" -> "1K"
      [] d = "ExtraLarge" -> "10K"

FromAmount(amount) ==
    CASE amount = 10 -> "Small"
      [] amount = 100 -> "Medium"
      [] amount = 1000 -> "Large"
      [] amount = 10000 -> "ExtraLarge"
      [] OTHER -> "None"

SymbolToDenomination(symbol) ==
    IF symbol = "10" THEN "Small"
    ELSE IF symbol = "100" THEN "Medium"
    ELSE IF symbol = "1K" THEN "Large"
    ELSE IF symbol = "10K" THEN "ExtraLarge"
    ELSE "None"

(* ------------------------- external collaborators --------------------- *)

\* the close times of the ledgers of a behaviour, in seconds
LedgerTimes == <<0, ExpiryDelta + 1>>

Users == {"u1", "u2", "u3"}
Recipients == {"r1", "r2", "r3"}
Tokens == {"A", "B"}
Accounts == Users \cup Recipients \cup {"mixer", "pair"}

\* the pair's token_0(); token_1() is the other token
PairToken0 == "A"
PairToken1 == "B"

CanTransfer(bal, token, from, amount) ==
    amount >= 0 /\ bal[token][from] >= amount

Transfer(bal, token, from, to, amount) ==
    [bal EXCEPT ![token][from] = @ - amount, ![token][to] = @ + amount]

TransferEvent(token, from, to, amount) ==
    [kind |-> "transfer", token |-> token, from |-> from, to |-> to,
     amount |-> amount, amount_0_out |-> 0, amount_1_out |-> 0]

SwapEvent(amount_0_out, amount_1_out, to) ==
    [kind |-> "swap", token |-> "-", from |-> "pair", to |-> to,
     amount |-> 0, amount_0_out |-> amount_0_out, amount_1_out |-> amount_1_out]

(* --------------------------- arithmetic ------------------------------- *)

\* <<q, r>> with a * b = q * c + r and 0 <= r < c, for a, b >= 0 and c > 0:
\* the quotient numerator / denominator of the i128 computation, without an
\* intermediate product that leaves TLC's integers.
RECURSIVE MulDivQR(_, _, _)
MulDivQR(a, b, c) ==
    IF b = 0 THEN <<0, 0>>
    ELSE LET h == MulDivQR(a, b \div 2, c)
             odd == b % 2 = 1
             q == 2 * h[1] + (IF odd THEN a \div c ELSE 0)
             r == 2 * h[2] + (IF odd THEN a % c ELSE 0)
         IN  <<q + (r \div c), r % c>>

MulDiv(a, b, c) == MulDivQR(a, b, c)[1]

(* --------------------------- i128 arithmetic --------------------------- *)

\* A natural number is the sequence of its base-256 digits, least
\* significant first, without a leading zero digit: <<>> is 0.  An integer
\* is a sign and a magnitude.  The amounts of the contract are i128: an
\* operation of the source is the exact operation followed by the reduction
\* to 128 bits (Wrap128), and it overflows when the exact value is outside
\* the range (InRange128).

\* the digits of a function on 1..n, as a sequence of values: a function
\* written [i \in 1..n |-> e] is kept as the expression e
Digits(f) == <<>> \o f

Digit(x, i) == IF i >= 1 /\ i <= Len(x) THEN x[i] ELSE 0

Trim(x) ==
    LET n == IF \A i \in 1..Len(x) : x[i] = 0 THEN 0
             ELSE CHOOSE i \in 1..Len(x) :
                      x[i] # 0 /\ \A j \in (i + 1)..Len(x) : x[j] = 0
    IN  SubSeq(x, 1, n)

NatOf(n) ==
    Trim(<<n % 256, (n \div 256) % 256, (n \div 65536) % 256, n \div 16777216>>)

\* the carry into a digit is decided by the nearest lower digit whose sum
\* is not 255
NatAdd(x, y) ==
    LET n == 1 + (IF Len(x) > Len(y) THEN Len(x) ELSE Len(y))
        S(i) == Digit(x, i) + Digit(y, i)
        C(i) == IF \E j \in 1..(i - 1) :
                      S(j) > 255 /\ \A k \in (j + 1)..(i - 1) : S(k) = 255
                THEN 1 ELSE 0
    IN  Trim(Digits([i \in 1..n |-> (S(i) + C(i)) % 256]))

NatLess(x, y) ==
    IF Len(x) # Len(y) THEN Len(x) < Len(y)
    ELSE \E i \in 1..Len(x) :
            x[i] < y[i] /\ \A j \in (i + 1)..Len(x) : x[j] = y[j]

\* x - y for x >= y: the borrow from a digit is decided by the nearest lower
\* digit where x and y differ
NatSub(x, y) ==
    LET B(i) == IF \E j \in 1..(i - 1) :
                      /\ Digit(x, j) < Digit(y, j)
                      /\ \A k \in (j + 1)..(i - 1) : Digit(x, k) = Digit(y, k)
                THEN 1 ELSE 0
    IN  Trim(Digits([i \in 1..Len(x) |-> (x[i] - Digit(y, i) - B(i) + 256) % 256]))

\* the number whose base-256 columns hold the values cols, each below 2^24:
\* a round of carrying leaves every column its low digit and the rest of the
\* column below, and after three rounds a column holds at most 256
Normalize(cols) ==
    LET Round(c) == Digits([i \in 1..(Len(c) + 1) |->
                               (Digit(c, i) % 256) + (Digit(c, i - 1) \div 256)])
        c3 == Round(Round(Round(cols)))
    IN  NatAdd(Digits([i \in 1..Len(c3) |-> c3[i] % 256]),
               Digits([i \in 1..(Len(c3) + 1) |-> Digit(c3, i - 1) \div 256]))

RECURSIVE Column(_, _, _, _)
Column(x, y, k, i) ==
    IF i > Len(x) THEN 0
    ELSE (x[i] * Digit(y, k + 1 - i)) + Column(x, y, k, i + 1)

NatMul(x, y) ==
    IF x = <<>> \/ y = <<>> THEN <<>>
    ELSE Normalize(Digits([k \in 1..(Len(x) + Len(y)) |-> Column(x, y, k, 1)]))

\* the largest digit d with d * y <= r, for r < 256 * y, found from the
\* binary weight w down
RECURSIVE QuotDigit(_, _, _, _)
QuotDigit(r, y, d, w) ==
    IF w = 0 THEN d
    ELSE CHOOSE out \in
             {QuotDigit(r, y, n, w \div 2) :
                 n \in {IF NatLess(r, NatMul(NatOf(d + w), y)) THEN d ELSE d + w}} :
             TRUE

\* long division: <<quotient, remainder>> of the number made of the digits
\* i and above of x by y > 0.  Every step binds the values it has computed
\* before it uses them, so that each is evaluated once.
RECURSIVE DivStep(_, _, _)
DivStep(x, y, i) ==
    IF i > Len(x) THEN <<(<<>>), (<<>>)>>
    ELSE CHOOSE out \in
             UNION {UNION {{<<Trim(<<d>> \o h[1]), NatSub(r, NatMul(NatOf(d), y))>> :
                              d \in {QuotDigit(r, y, 0, 128)}} :
                           r \in {Trim(<<x[i]>> \o h[2])}} :
                    h \in {DivStep(x, y, i + 1)}} : TRUE

NatDiv(a, b) == CHOOSE out \in {DivStep(x, y, 1)[1] : x \in {a}, y \in {b}} : TRUE

Signed(neg, mag) == [neg |-> neg /\ mag # <<>>, mag |-> mag]

IntOf(n) == IF n < 0 THEN Signed(TRUE, NatOf(0 - n)) ELSE Signed(FALSE, NatOf(n))

IntNeg(a) == Signed(~a.neg, a.mag)

IntAdd(a, b) ==
    IF a.neg = b.neg THEN Signed(a.neg, NatAdd(a.mag, b.mag))
    ELSE IF NatLess(a.mag, b.mag) THEN Signed(b.neg, NatSub(b.mag, a.mag))
    ELSE Signed(a.neg, NatSub(a.mag, b.mag))

IntSub(a, b) == IntAdd(a, IntNeg(b))

IntMul(a, b) == Signed(a.neg # b.neg, NatMul(a.mag, b.mag))

\* the quotient rounded towards zero, for b # 0
IntDiv(a, b) == Signed(a.neg # b.neg, NatDiv(a.mag, b.mag))

IntLess(a, b) ==
    IF a.neg # b.neg THEN a.neg
    ELSE IF a.neg THEN NatLess(b.mag, a.mag)
    ELSE NatLess(a.mag, b.mag)

TwoTo127 == Digits([i \in 1..16 |-> IF i = 16 THEN 128 ELSE 0])

TwoTo128 == Digits([i \in 1..17 |-> IF i = 17 THEN 1 ELSE 0])

\* i128::MIN <= a <= i128::MAX
InRange128(a) ==
    IF a.neg THEN ~NatLess(TwoTo127, a.mag) ELSE NatLess(a.mag, TwoTo127)

\* the i128 that has the low 128 bits of a in two's complement
Wrap128(a) ==
    LET low == Trim(SubSeq(a.mag, 1, IF Len(a.mag) > 16 THEN 16 ELSE Len(a.mag)))
        bits == IF a.neg /\ low # <<>> THEN NatSub(TwoTo128, low) ELSE low
    IN  IF NatLess(bits, TwoTo127) THEN Signed(FALSE, bits)
        ELSE Signed(TRUE, NatSub(TwoTo128, bits))

(* ----------------------- payout calculator (4.D) ---------------------- *)

PayoutErr(e) ==
    [ok |-> FALSE, err |-> e, equal_payout_amount |-> 0, total_input_amount |-> 0,
     total_output_amount |-> 0, slippage_bps |-> 0, participant_count |-> 0]

RECURSIVE TotalMinExpected(_, _)
TotalMinExpected(deposits, i) ==
    IF i > Len(deposits) THEN 0
    ELSE deposits[i].min_amount_out + TotalMinExpected(deposits, i + 1)

\* a constant-product output that charges no fee
AmountOutNoFee(total_input_amount, reserve_in, reserve_out) ==
    MulDiv(total_input_amount, reserve_out, reserve_in + total_input_amount)

\* the constant-product output of amount_in against (reserve_in, reserve_out)
AmountOut(total_input_amount, reserve_in, reserve_out) ==
    LET amount_in_with_fee == total_input_amount * 997
        denominator == (reserve_in * 1000) + amount_in_with_fee
    IN  MulDiv(amount_in_with_fee, reserve_out, denominator)

ReserveIn(reserves, token_in) ==
    IF PairToken0 = token_in THEN reserves[1] ELSE reserves[2]

ReserveOut(reserves, token_in) ==
    IF PairToken0 = token_in THEN reserves[2] ELSE reserves[1]

\* a slippage that counts the distance of the payout from the average
\* minimum in both directions
SlippageBpsEitherWay(avg_min_expected, equal_payout_amount) ==
    IF avg_min_expected > 0
    THEN LET slippage_amount ==
                 IF avg_min_expected > equal_payout_amount
                 THEN avg_min_expected - equal_payout_amount
                 ELSE equal_payout_amount - avg_min_expected
         IN  (slippage_amount * 10000) \div avg_min_expected
    ELSE 0

SlippageBps(avg_min_expected, equal_payout_amount) ==
    IF avg_min_expected > 0
    THEN LET slippage_amount ==
                 IF avg_min_expected > equal_payout_amount
                 THEN avg_min_expected - equal_payout_amount
                 ELSE 0
         IN  (slippage_amount * 10000) \div avg_min_expected
    ELSE 0

\* a comparison that takes every deposit to be of the pair
OtherPairNever(deposit, token_in, token_out) == FALSE

\* the deposit is not of the pair (token_in, token_out)
OtherPair(deposit, token_in, token_out) ==
    deposit.token_in # token_in \/ deposit.token_out # token_out

CalculateEqualPayout(factory_addr, denomination, deposits, reserves) ==
    IF deposits = <<>> THEN PayoutErr("InvalidInput")
    ELSE
    LET first_deposit == deposits[1]
        token_in == first_deposit.token_in
        token_out == first_deposit.token_out
        participant_count == Len(deposits)
        total_input_amount == DenominationValue(denomination) * participant_count
    IN  IF \E i \in 1..Len(deposits) : OtherPair(deposits[i], token_in, token_out)
        THEN PayoutErr("InvalidInput")
        ELSE IF factory_addr = "None" THEN PayoutErr("NotInitialized")
        ELSE
        LET total_output_amount ==
                AmountOut(total_input_amount, ReserveIn(reserves, token_in),
                          ReserveOut(reserves, token_in))
            equal_payout_amount == total_output_amount \div participant_count
            avg_min_expected == TotalMinExpected(deposits, 1) \div participant_count
        IN  [ok |-> TRUE, err |-> "",
             equal_payout_amount |-> equal_payout_amount,
             total_input_amount |-> total_input_amount,
             total_output_amount |-> total_output_amount,
             slippage_bps |-> SlippageBps(avg_min_expected, equal_payout_amount),
             participant_count |-> participant_count]

\* ---- the calculator on i128 amounts ----
\* calculate_equal_payout computes with the plain operators * + - of i128.
\* A build with overflow checks aborts the invocation at an operation that
\* overflows; a build without them keeps the low 128 bits of the result.
\* The source tree holds no build profile, so a caller can meet either
\* build: checked tells which.  Amounts are in stroops.

Zero128 == IntOf(0)

DenominationValue128(denomination) ==
    IntMul(IntOf(DenominationValue(denomination)), IntOf(1000000))

\* the value an operation leaves, and whether it or an earlier operation
\* overflowed
Step128(before, exact) ==
    [val |-> Wrap128(exact), overflowed |-> before.overflowed \/ ~InRange128(exact)]

\* a value cast to u32: its low 32 bits
AsU32(a) ==
    LET low == Trim(SubSeq(a.mag, 1, IF Len(a.mag) > 4 THEN 4 ELSE Len(a.mag)))
    IN  IF a.neg /\ low # <<>> THEN NatSub(<<0, 0, 0, 0, 1>>, low) ELSE low

\* the loop that adds min_amount_out of the deposits i.. to acc
RECURSIVE TotalMinExpected128(_, _, _)
TotalMinExpected128(deposits, i, acc) ==
    IF i > Len(deposits) THEN acc
    ELSE TotalMinExpected128(deposits, i + 1,
             Step128(acc, IntAdd(acc.val, deposits[i].min_amount_out)))

Payout128(kind, err, equal_payout, total_input, total_output, slippage_bps, count) ==
    [kind |-> kind, err |-> err, equal_payout_amount |-> equal_payout,
     total_input_amount |-> total_input, total_output_amount |-> total_output,
     slippage_bps |-> slippage_bps, participant_count |-> count]

PayoutErr128(e) == Payout128("Err", e, Zero128, Zero128, Zero128, <<>>, 0)

\* the invocation aborted: nothing is returned
PayoutTrap128 == Payout128("Trap", "", Zero128, Zero128, Zero128, <<>>, 0)

\* the slippage of the payout against the average minimum, after the
\* operations counted in before
Slippage128(before, avg_min_expected, equal_payout_amount) ==
    IF IntLess(Zero128, avg_min_expected)
    THEN LET slippage_amount ==
                 IF IntLess(equal_payout_amount, avg_min_expected)
                 THEN Step128(before, IntSub(avg_min_expected, equal_payout_amount))
                 ELSE Step128(before, Zero128)
         IN  Step128(slippage_amount, IntMul(slippage_amount.val, IntOf(10000)))
    ELSE Step128(before, Zero128)

\* the arithmetic of the calculator on a set of count deposits
PayoutArithmetic128(checked, count, amount_per_deposit, reserve_in, reserve_out, deposits) ==
    LET participant_count == IntOf(count)
        start == [val |-> Zero128, overflowed |-> FALSE]
        total_input_amount == Step128(start, IntMul(amount_per_deposit, participant_count))
        amount_in_with_fee == Step128(total_input_amount, IntMul(total_input_amount.val, IntOf(997)))
        numerator == Step128(amount_in_with_fee, IntMul(amount_in_with_fee.val, reserve_out))
        scaled == Step128(numerator, IntMul(reserve_in, IntOf(1000)))
        denominator == Step128(scaled, IntAdd(scaled.val, amount_in_with_fee.val))
    IN  IF checked /\ denominator.overflowed THEN PayoutTrap128
        \* a division by zero, and i128::MIN / -1, abort in every build
        ELSE IF denominator.val = Zero128 THEN PayoutTrap128
        ELSE
        LET quotient == IntDiv(numerator.val, denominator.val)
            total_output_amount == Step128(denominator, Wrap128(quotient))
            equal_payout_amount == IntDiv(total_output_amount.val, participant_count)
            total_min_expected == TotalMinExpected128(deposits, 1, Step128(total_output_amount, Zero128))
            avg_min_expected == IntDiv(total_min_expected.val, participant_count)
            scaled_slippage == Slippage128(total_min_expected, avg_min_expected, equal_payout_amount)
        IN  IF ~InRange128(quotient) THEN PayoutTrap128
            ELSE IF checked /\ scaled_slippage.overflowed THEN PayoutTrap128
            ELSE Payout128("Ok", "", equal_payout_amount, total_input_amount.val,
                           total_output_amount.val,
                           IF IntLess(Zero128, avg_min_expected)
                           THEN AsU32(IntDiv(scaled_slippage.val, avg_min_expected))
                           ELSE <<>>,
                           count)

\* calculate_equal_payout on deposits whose min_amount_out, and reserves
\* whose amounts, are i128 values
CalculateEqualPayout128(checked, factory_addr, denomination, deposits, reserves) ==
    IF deposits = <<>> THEN PayoutErr128("InvalidInput")
    ELSE IF \E i \in 1..Len(deposits) :
                \/ deposits[i].token_in # deposits[1].token_in
                \/ deposits[i].token_out # deposits[1].token_out
    THEN PayoutErr128("InvalidInput")
    ELSE IF factory_addr = "None" THEN PayoutErr128("NotInitialized")
    ELSE PayoutArithmetic128(checked, Len(deposits), DenominationValue128(denomination),
                             ReserveIn(reserves, deposits[1].token_in),
                             ReserveOut(reserves, deposits[1].token_in), deposits)

(* ------------------------ participant selector (4.E) ------------------ *)

\* a comparison that never exchanges two neighbours: the list stays in the
\* order of arrival
SwapNever(s, j) == s

\* a comparison that also exchanges two neighbours that ask for the same
\* amount
SwapIfNotLess(s, j) ==
    IF s[j].min_amount_out >= s[j + 1].min_amount_out
    THEN [s EXCEPT ![j] = s[j + 1], ![j + 1] = s[j]]
    ELSE s

SwapIfGreater(s, j) ==
    IF s[j].min_amount_out > s[j + 1].min_amount_out
    THEN [s EXCEPT ![j] = s[j + 1], ![j + 1] = s[j]]
    ELSE s

\* the inner loop: j runs over the 1-based positions j..lim
RECURSIVE BubbleInner(_, _, _)
BubbleInner(s, j, lim) ==
    IF j > lim THEN s ELSE BubbleInner(SwapIfGreater(s, j), j + 1, lim)

\* the outer loop: i runs over i..len-1
RECURSIVE BubbleOuter(_, _)
BubbleOuter(s, i) ==
    IF i >= Len(s) THEN s
    ELSE BubbleOuter(BubbleInner(s, 1, Len(s) - i - 1), i + 1)

SortDepositsByMinAmount(deposits) ==
    IF Len(deposits) <= 1 THEN deposits ELSE BubbleOuter(deposits, 0)

\* a test of the minimum that every deposit passes
MeetsAlways(deposit, payout_info) == TRUE

MeetsMinimum(deposit, payout_info) ==
    payout_info.equal_payout_amount >= deposit.min_amount_out

WithinSlippage(deposit, payout_info) ==
    payout_info.slippage_bps <= deposit.max_slippage_bps

AllQualify(candidate_set, payout_info) ==
    \A i \in 1..Len(candidate_set) :
        MeetsMinimum(candidate_set[i], payout_info)
        /\ WithinSlippage(candidate_set[i], payout_info)

SelectErr(e) == [ok |-> FALSE, err |-> e, set |-> <<>>]

\* the descending loop over set_size in (min_participants..=len).rev()
RECURSIVE SearchSetSize(_, _, _, _, _, _)
SearchSetSize(factory_addr, denomination, sorted_deposits, set_size, min_participants, reserves) ==
    IF set_size < min_participants THEN SelectErr("InsufficientBalance")
    ELSE
    LET candidate_set == SubSeq(sorted_deposits, 1, set_size)
        payout_info ==
            CalculateEqualPayout(factory_addr, denomination, candidate_set, reserves)
    IN  IF ~payout_info.ok THEN SelectErr(payout_info.err)
        ELSE IF AllQualify(candidate_set, payout_info)
        THEN [ok |-> TRUE, err |-> "", set |-> candidate_set]
        ELSE SearchSetSize(factory_addr, denomination, sorted_deposits,
                           set_size - 1, min_participants, reserves)

FindOptimalParticipantSet(ps, factory_addr, denomination, all_deposits, reserves) ==
    IF all_deposits = <<>> THEN SelectErr("InvalidInput")
    ELSE IF DenominationSymbol(denomination) \notin DOMAIN ps
    THEN SelectErr("InvalidInput")
    ELSE
    LET min_participants == ps[DenominationSymbol(denomination)].minimum_pool_size
        sorted_deposits == SortDepositsByMinAmount(all_deposits)
    IN  SearchSetSize(factory_addr, denomination, sorted_deposits,
                      Len(sorted_deposits), min_participants, reserves)

(* --------------------------- pool store (4.B) ------------------------- *)

Symbols == {DenominationSymbol(d) : d \in Denominations}

\* a pool that is ready with two deposits
NewPoolOfTwo(denom) ==
    [denomination |-> denom, deposits |-> <<>>, withdrawals |-> <<>>,
     merkle_root |-> 0, minimum_pool_size |-> 2,
     maximum_pool_size |-> MaximumPoolSize, fee_basis_points |-> FeeBasisPoints]

NewPool(denom) ==
    [denomination |-> denom, deposits |-> <<>>, withdrawals |-> <<>>,
     merkle_root |-> 0, minimum_pool_size |-> MinimumPoolSize,
     maximum_pool_size |-> MaximumPoolSize, fee_basis_points |-> FeeBasisPoints]

\* the instance storage written by init_coinjoin: one pool per denomination
InitCoinjoin ==
    [sym \in Symbols |->
        NewPool(CHOOSE d \in Denominations : DenominationSymbol(d) = sym)]

HasPool(ps, denomination) == DenominationSymbol(denomination) \in DOMAIN ps

GetPool(ps, denomination) == ps[DenominationSymbol(denomination)]

\* a store with one key for the pools of all denominations
UpdatePoolUnkeyed(ps, denomination, pool) == [sym \in DOMAIN ps |-> pool]

UpdatePool(ps, denomination, pool) ==
    [ps EXCEPT ![DenominationSymbol(denomination)] = pool]

\* a lookup that finds no NullifierUsed key
IsNullifierUsedNever(used, nullifier_hash) == FALSE

IsNullifierUsed(used, nullifier_hash) == nullifier_hash \in used

\* bytes 0..15 hold the amount, bytes 16..23 the timestamp, bytes 24..31 a
\* pattern of amount + timestamp: the user address is not read
CreateNullifier(timestamp, user_address, amount) ==
    [amount |-> amount, timestamp |-> timestamp]

\* bytes 0..7 hold the timestamp, the rest a pattern of the timestamp: the
\* receiving address is not read
CreateCommitment(timestamp, receiving_address) == [timestamp |-> timestamp]

\* CoinJoinMixer::deposit
\* a deposit that is stored at the head of the pool
DepositAtHead(ps, enabled, timestamp, denomination, recipient_commitment, nullifier, sender_address, recipient_address, max_slippage_bps, token_in, token_out, min_amount_out) ==
    IF ~enabled THEN [ok |-> FALSE, err |-> "InvalidInput", pools |-> ps]
    ELSE IF ~HasPool(ps, denomination)
    THEN [ok |-> FALSE, err |-> "InvalidInput", pools |-> ps]
    ELSE
    LET expected_amount == DenominationValue(denomination)
        pool == GetPool(ps, denomination)
        deposit ==
            [commitment |-> recipient_commitment,
             timestamp |-> timestamp,
             nullifier |-> nullifier,
             fee_paid |-> MulDiv(expected_amount * pool.fee_basis_points, 1000000, 10000),
             sender_address |-> sender_address,
             recipient_address |-> recipient_address,
             max_slippage_bps |-> max_slippage_bps,
             expiry_timestamp |-> timestamp + ExpiryDelta,
             token_in |-> token_in,
             token_out |-> token_out,
             min_amount_out |-> min_amount_out]
    IN  [ok |-> TRUE, err |-> "",
         pools |-> UpdatePool(ps, denomination,
                              [pool EXCEPT !.deposits = <<deposit>> \o @])]

Deposit(ps, enabled, timestamp, denomination, recipient_commitment, nullifier, sender_address, recipient_address, max_slippage_bps, token_in, token_out, min_amount_out) ==
    IF ~enabled THEN [ok |-> FALSE, err |-> "InvalidInput", pools |-> ps]
    ELSE IF ~HasPool(ps, denomination)
    THEN [ok |-> FALSE, err |-> "InvalidInput", pools |-> ps]
    ELSE
    LET expected_amount == DenominationValue(denomination)
        pool == GetPool(ps, denomination)
        deposit ==
            [commitment |-> recipient_commitment,
             timestamp |-> timestamp,
             nullifier |-> nullifier,
             fee_paid |-> MulDiv(expected_amount * pool.fee_basis_points, 1000000, 10000),
             sender_address |-> sender_address,
             recipient_address |-> recipient_address,
             max_slippage_bps |-> max_slippage_bps,
             expiry_timestamp |-> timestamp + ExpiryDelta,
             token_in |-> token_in,
             token_out |-> token_out,
             min_amount_out |-> min_amount_out]
    IN  [ok |-> TRUE, err |-> "",
         pools |-> UpdatePool(ps, denomination,
                              [pool EXCEPT !.deposits = Append(@, deposit)])]

CurrentPoolSize(ps, denomination) == Len(GetPool(ps, denomination).deposits)

\* a wait time that is not cut off at zero
EstimatedWaitTimeSigned(pool) ==
    (pool.minimum_pool_size - Len(pool.deposits)) * 5

EstimatedWaitTime(pool) ==
    IF Len(pool.deposits) >= pool.minimum_pool_size THEN 0
    ELSE (pool.minimum_pool_size - Len(pool.deposits)) * 5

\* the sender address of every deposit, repeated ones included
AllSenders(deposits, i, unique_senders) ==
    [k \in 1..Len(deposits) |-> deposits[k].sender_address]

\* the sender addresses of the pool in order of first appearance
RECURSIVE UniqueSenders(_, _, _)
UniqueSenders(deposits, i, unique_senders) ==
    IF i > Len(deposits) THEN unique_senders
    ELSE LET sender == deposits[i].sender_address
             is_unique == ~\E j \in 1..Len(unique_senders) : unique_senders[j] = sender
         IN  UniqueSenders(deposits, i + 1,
                           IF is_unique THEN Append(unique_senders, sender)
                           ELSE unique_senders)

\* CoinJoinMixer::get_pool_stats: the two totals are read from keys that no
\* code writes
GetPoolStats(ps, denomination) ==
    IF ~HasPool(ps, denomination) THEN [ok |-> FALSE, err |-> "InvalidInput"]
    ELSE LET pool == GetPool(ps, denomination)
         IN  [ok |-> TRUE, err |-> "",
              denomination |-> denomination,
              current_pool_size |-> Len(pool.deposits),
              total_deposits |-> 0,
              total_withdrawals |-> 0,
              current_fees |-> pool.fee_basis_points,
              estimated_wait_time |-> EstimatedWaitTime(pool)]

\* CoinJoinMixer::get_deposit_details: index counts from 0
DepositInfo(ps, denomination, index) ==
    IF ~HasPool(ps, denomination) THEN [ok |-> FALSE, err |-> "InvalidInput"]
    ELSE LET pool == GetPool(ps, denomination)
         IN  IF index >= Len(pool.deposits)
             THEN [ok |-> FALSE, err |-> "InvalidInput"]
             ELSE LET deposit == pool.deposits[index + 1]
                  IN  [ok |-> TRUE, err |-> "",
                       min_amount_out |-> deposit.min_amount_out,
                       max_slippage_bps |-> deposit.max_slippage_bps,
                       expiry_timestamp |-> deposit.expiry_timestamp,
                       timestamp |-> deposit.timestamp,
                       fee_paid |-> deposit.fee_paid]

EstimateMixingGasCost(deposit_count) ==
    25000 + (deposit_count * 8000) + 5000 + 3000

NoneU32 == [is_some |-> FALSE, value |-> 0]
SomeU32(n) == [is_some |-> TRUE, value |-> n]

RECURSIVE TotalFees(_, _)
TotalFees(deposits, n) ==
    IF n = 0 THEN 0 ELSE deposits[n].fee_paid + TotalFees(deposits, n - 1)

\* a count that takes the whole pool, whatever the cap
MixAll(pool, max_deposits) == Len(pool.deposits)

\* the number of leading deposits execute_mixing takes out of the pool
MixCount(pool, max_deposits) ==
    LET max_to_mix == IF max_deposits.is_some THEN max_deposits.value
                      ELSE pool.maximum_pool_size
    IN  IF Len(pool.deposits) > max_to_mix THEN max_to_mix ELSE Len(pool.deposits)

\* CoinJoinMixer::execute_mixing: no token is moved
ExecuteMixing(ps, enabled, denomination, max_deposits) ==
    IF ~enabled \/ ~HasPool(ps, denomination)
    THEN [ok |-> FALSE, err |-> "InvalidInput", pools |-> ps, success |-> FALSE,
          mixed |-> <<>>, anonymity_set_size |-> 0, fees_paid |-> 0, gas_used |-> 0]
    ELSE
    LET pool == GetPool(ps, denomination)
        unique_senders == UniqueSenders(pool.deposits, 1, <<>>)
    IN  IF Len(unique_senders) < pool.minimum_pool_size
        THEN [ok |-> TRUE, err |-> "", pools |-> ps, success |-> FALSE,
              mixed |-> <<>>, anonymity_set_size |-> 0, fees_paid |-> 0,
              gas_used |-> 0]
        ELSE
        LET mix_count == MixCount(pool, max_deposits)
            remaining_deposits ==
                SubSeq(pool.deposits, mix_count + 1, Len(pool.deposits))
        IN  [ok |-> TRUE, err |-> "",
             pools |-> UpdatePool(ps, denomination,
                                  [pool EXCEPT !.deposits = remaining_deposits]),
             success |-> TRUE,
             mixed |-> SubSeq(pool.deposits, 1, mix_count),
             anonymity_set_size |-> mix_count,
             fees_paid |-> TotalFees(pool.deposits, mix_count),
             gas_used |-> EstimateMixingGasCost(mix_count)]

(* ------------------------ settlement executor (4.F) ------------------- *)

\* what the pair's get_reserves reports to the three places that read it
\* within one settlement: the selector, the payout computed for the selected
\* set, the output requested from the swap
NoScenario == [rSel |-> <<0, 0>>, rPay |-> <<0, 0>>, rSwap |-> <<0, 0>>]

NoMix ==
    [path |-> "none", status |-> "none", err |-> "", found |-> "none",
     denomination |-> "None",
     token_in |-> "-", token_out |-> "-", pre |-> <<>>, selected |-> <<>>,
     post |-> <<>>, share |-> 0, total_input |-> 0, total_output |-> 0,
     reads |-> NoScenario, log |-> <<>>, pool_writes |-> <<>>]

\* a write of the pool that is made before the first external call
WrittenFirst(log) == <<0>>

\* update_pool is called once, after the calls of log have returned: the
\* entry of pool_writes is the number of external calls made before the write
WrittenAfter(log) == <<Len(log)>>

\* a payout loop that ends, without failing, at the first transfer the
\* contract cannot make
RECURSIVE PayWhatItCan(_, _, _, _, _)
PayWhatItCan(bal, token_out, qualifying_deposits, i, amount) ==
    IF i > Len(qualifying_deposits) THEN [ok |-> TRUE, balances |-> bal]
    ELSE IF ~CanTransfer(bal, token_out, "mixer", amount)
    THEN [ok |-> TRUE, balances |-> bal]
    ELSE PayWhatItCan(Transfer(bal, token_out, "mixer",
                               qualifying_deposits[i].recipient_address, amount),
                      token_out, qualifying_deposits, i + 1, amount)

\* the payout loop: one transfer of amount per qualifying deposit
RECURSIVE PayAll(_, _, _, _, _)
PayAll(bal, token_out, qualifying_deposits, i, amount) ==
    IF i > Len(qualifying_deposits) THEN [ok |-> TRUE, balances |-> bal]
    ELSE IF ~CanTransfer(bal, token_out, "mixer", amount)
    THEN [ok |-> FALSE, balances |-> bal]
    ELSE PayAll(Transfer(bal, token_out, "mixer",
                         qualifying_deposits[i].recipient_address, amount),
                token_out, qualifying_deposits, i + 1, amount)

PayoutEvents(token_out, qualifying_deposits, amount) ==
    [i \in 1..Len(qualifying_deposits) |->
        TransferEvent(token_out, "mixer", qualifying_deposits[i].recipient_address,
                      amount)]

\* the deposits of the pool whose nullifier is the nullifier of no qualifying one
RemainingDeposits(pool_deposits, qualifying_deposits) ==
    SelectSeq(pool_deposits,
              LAMBDA deposit :
                  ~\E j \in 1..Len(qualifying_deposits) :
                       deposit.nullifier = qualifying_deposits[j].nullifier)

\* SoroSwapBatcher::try_execute_batch_swap on storage ps and balances bal
TryExecuteBatchSwap(ps, bal, factory_addr, denomination, token_in, token_out, sc) ==
    LET base == [NoMix EXCEPT !.path = "try_execute_batch_swap",
                              !.denomination = denomination,
                              !.token_in = token_in, !.token_out = token_out,
                              !.reads = sc]
        Out(m, newps, newbal) == [mix |-> m, pools |-> newps, balances |-> newbal]
        Err(e, m) == Out([m EXCEPT !.status = "Err", !.err = e], ps, bal)
        Trap(m) == Out([m EXCEPT !.status = "Trap"], ps, bal)
        \* the payout loop and the pruning, after the swap has delivered
        Distribute(pool, qualifying_deposits, equal_payout_amount, m3, paid) ==
            IF ~paid.ok THEN Trap(m3)
            ELSE Out([m3 EXCEPT
                        !.status = "Ok",
                        !.post = RemainingDeposits(pool.deposits, qualifying_deposits),
                        !.log = @ \o PayoutEvents(token_out, qualifying_deposits,
                                                  equal_payout_amount),
                        !.pool_writes =
                            WrittenAfter(m3.log \o
                                         PayoutEvents(token_out, qualifying_deposits,
                                                      equal_payout_amount))],
                     UpdatePool(ps, denomination,
                                [pool EXCEPT !.deposits =
                                    RemainingDeposits(pool.deposits,
                                                      qualifying_deposits)]),
                     paid.balances)
        \* pair.swap for total_output, the input being with the pair in bal1
        Swap(pool, qualifying_deposits, payout_info, m2, bal1, total_output) ==
            LET is_token_in_token_0 == PairToken0 = token_in
                amount_0_out == IF is_token_in_token_0 THEN 0 ELSE total_output
                amount_1_out == IF is_token_in_token_0 THEN total_output ELSE 0
                delivered == IF is_token_in_token_0 THEN PairToken1 ELSE PairToken0
            IN  IF ~CanTransfer(bal1, delivered, "pair", total_output)
                THEN Trap([m2 EXCEPT !.total_output = total_output])
                ELSE Distribute(pool, qualifying_deposits,
                                payout_info.equal_payout_amount,
                                [m2 EXCEPT !.total_output = total_output,
                                           !.log = Append(@, SwapEvent(amount_0_out,
                                                                       amount_1_out,
                                                                       "mixer"))],
                                PayAll(Transfer(bal1, delivered, "pair", "mixer",
                                                total_output),
                                       token_out, qualifying_deposits, 1,
                                       payout_info.equal_payout_amount))
        \* the transfer of the aggregated input to the pair and the read of the
        \* reserves that follows it
        Execute(pool, qualifying_deposits, payout_info, m1) ==
            IF ~CanTransfer(bal, token_in, "mixer", payout_info.total_input_amount)
            THEN Trap(m1)
            ELSE Swap(pool, qualifying_deposits, payout_info,
                      [m1 EXCEPT !.log = <<TransferEvent(token_in, "mixer", "pair",
                                               payout_info.total_input_amount)>>],
                      Transfer(bal, token_in, "mixer", "pair",
                               payout_info.total_input_amount),
                      AmountOut(payout_info.total_input_amount,
                                ReserveIn(sc.rSwap, token_in),
                                ReserveOut(sc.rSwap, token_in)))
        \* the payout of the set found
        Payout(pool, m0, qualifying_deposits, payout_info) ==
            IF ~payout_info.ok THEN Err(payout_info.err, m0)
            ELSE IF factory_addr = "None" THEN Err("NotInitialized", m0)
            ELSE Execute(pool, qualifying_deposits, payout_info,
                         [m0 EXCEPT !.share = payout_info.equal_payout_amount,
                                    !.total_input = payout_info.total_input_amount])
        Select(pool, m0, found) ==
            IF ~found.ok THEN Err(found.err, [m0 EXCEPT !.found = found.err])
            ELSE Payout(pool, [m0 EXCEPT !.found = "Ok", !.selected = found.set],
                        found.set,
                        CalculateEqualPayout(factory_addr, denomination, found.set,
                                             sc.rPay))
        WithPool(pool) ==
            Select(pool, [base EXCEPT !.pre = pool.deposits, !.post = pool.deposits],
                   FindOptimalParticipantSet(ps, factory_addr, denomination,
                                             pool.deposits, sc.rSel))
    IN  IF ~HasPool(ps, denomination) THEN Err("InvalidInput", base)
        ELSE WithPool(GetPool(ps, denomination))

(* ------------------- the Solana program (programs/batch) -------------- *)

\* Amounts are in units of 10^6 base units of the mint.
DENOM_SMALL == 10
DENOM_MEDIUM == 100
DENOM_LARGE == 1000
DENOM_XL == 2000

is_supported_denom(amount) ==
    amount \in {DENOM_SMALL, DENOM_MEDIUM, DENOM_LARGE, DENOM_XL}

\* the token accounts of the pool's mint: the depositor's, the vault of the
\* pool, and two recipients'
MintAccounts == {"depositor", "vault", "ra", "rb"}

\* the Config account, the Pool account of one denomination, and the token
\* accounts of the mint, before initialize_config
NoAccounts ==
    [config |-> [initialized |-> FALSE, owner |-> "-", factory |-> "-", router |-> "-"],
     pool |-> [initialized |-> FALSE, mint |-> "-", vault |-> "-", denomination |-> 0,
               fee_bps |-> 0, min_pool_size |-> 0, max_pool_size |-> 0,
               current_pool_size |-> 0, total_deposits |-> 0,
               total_withdrawals |-> 0],
     tokens |-> [a \in MintAccounts |-> IF a = "depositor" THEN DepositorFunds ELSE 0]]

\* the outcome of an instruction: an instruction that fails changes no account
Instruction(err, accounts) == [ok |-> err = "Ok", err |-> err, accounts |-> accounts]

\* batch::initialize_config; the account constraint init fails on a Config
\* that exists
initialize_config(s, payer, factory, router) ==
    IF s.config.initialized THEN Instruction("AccountInUse", s)
    ELSE Instruction("Ok",
                     [s EXCEPT !.config = [initialized |-> TRUE, owner |-> payer,
                                           factory |-> factory, router |-> router]])

\* batch::init_pool; the account constraints need the Config and a Pool
\* address (seeded with the denomination) that holds no account yet
init_pool(s, denomination, fee_bps, min_pool_size, max_pool_size) ==
    IF ~s.config.initialized THEN Instruction("AccountNotInitialized", s)
    ELSE IF s.pool.initialized THEN Instruction("AccountInUse", s)
    ELSE IF ~is_supported_denom(denomination)
    THEN Instruction("UnsupportedDenomination", s)
    ELSE IF ~(min_pool_size >= 2) THEN Instruction("InvalidConfig", s)
    ELSE IF ~(max_pool_size >= min_pool_size) THEN Instruction("InvalidConfig", s)
    ELSE Instruction("Ok",
                     [s EXCEPT !.pool = [initialized |-> TRUE, mint |-> "mint",
                                         vault |-> "vault",
                                         denomination |-> denomination,
                                         fee_bps |-> fee_bps,
                                         min_pool_size |-> min_pool_size,
                                         max_pool_size |-> max_pool_size,
                                         current_pool_size |-> 0,
                                         total_deposits |-> 0,
                                         total_withdrawals |-> 0]])

\* token::transfer of the token program: the amount leaves the source and
\* arrives at the destination
token_transfer(tokens, from, to, amount) ==
    IF tokens[from] < amount THEN [ok |-> FALSE, tokens |-> tokens]
    ELSE [ok |-> TRUE,
          tokens |-> [[tokens EXCEPT ![from] = @ - amount] EXCEPT ![to] = @ + amount]]

\* batch::deposit; the counters are far from the ends of u32 and u64 here
batch_deposit(s, mint, depositor_token) ==
    IF ~s.pool.initialized THEN Instruction("AccountNotInitialized", s)
    ELSE IF ~(mint = s.pool.mint) THEN Instruction("MintMismatch", s)
    ELSE LET moved == token_transfer(s.tokens, depositor_token, s.pool.vault,
                                     s.pool.denomination)
         IN  IF ~moved.ok THEN Instruction("InsufficientFunds", s)
             ELSE Instruction("Ok",
                      [s EXCEPT !.tokens = moved.tokens,
                                !.pool.current_pool_size = @ + 1,
                                !.pool.total_deposits = @ + 1])

\* the loop of execute_mixing over the remaining accounts from i on: every
\* recipient must be a token account of the pool's mint and receives denom
\* from the vault
RECURSIVE pay_recipients(_, _, _, _)
pay_recipients(tokens, remaining_accounts, i, denom) ==
    IF i > Len(remaining_accounts) THEN [err |-> "Ok", tokens |-> tokens]
    ELSE IF remaining_accounts[i] \notin MintAccounts
    THEN [err |-> "InvalidRecipient", tokens |-> tokens]
    ELSE LET moved == token_transfer(tokens, "vault", remaining_accounts[i], denom)
         IN  IF ~moved.ok THEN [err |-> "InsufficientFunds", tokens |-> tokens]
             ELSE pay_recipients(moved.tokens, remaining_accounts, i + 1, denom)

\* batch::execute_mixing
execute_mixing(s, remaining_accounts) ==
    LET recipient_count == Len(remaining_accounts)
        Paid(paid) ==
            IF paid.err # "Ok" THEN Instruction(paid.err, s)
            ELSE Instruction("Ok",
                     [s EXCEPT !.tokens = paid.tokens,
                               !.pool.total_withdrawals = @ + recipient_count,
                               !.pool.current_pool_size = 0])
    IN  IF ~s.pool.initialized THEN Instruction("AccountNotInitialized", s)
        ELSE IF ~(recipient_count >= s.pool.min_pool_size)
        THEN Instruction("NotEnoughParticipants", s)
        ELSE IF ~(recipient_count <= s.pool.max_pool_size)
        THEN Instruction("TooManyParticipants", s)
        ELSE IF ~(recipient_count = s.pool.current_pool_size)
        THEN Instruction("ParticipantMismatch", s)
        ELSE Paid(pay_recipients(s.tokens, remaining_accounts, 1, s.pool.denomination))

(* ------------------------------- state -------------------------------- *)

VARIABLES
    owner,            \* DataKey::Owner, "None" while unset
    factoryAddr,      \* DataKey::FactoryAddr
    routerAddr,       \* DataKey::RouterAddr
    coinjoinEnabled,  \* DataKey::CoinJoinEnabled
    pools,            \* DataKey::CoinJoinPool(symbol) -> CoinJoinPool
    nullifierUsed,    \* the keys DataKey::NullifierUsed(n) that are set
    balances,         \* token -> account -> amount (the token ledger)
    now,              \* env.ledger().timestamp()
    nAccepted,        \* private_swap calls that returned Ok so far
    clients,          \* the private_swap calls made in this behaviour
    solana,           \* the accounts of the Solana program: config, pool, tokens
    last              \* the latest invocation

vars == <<owner, factoryAddr, routerAddr, coinjoinEnabled, pools, nullifierUsed,
          balances, now, nAccepted, clients, solana, last>>

\* a check that finds no owner stored, whatever the storage holds
NeverInitialized == FALSE

IsInitialized == owner # "None"

(* ------------------------------- inputs ------------------------------- *)

Call(user, recipient, amount, min_out, slip, tin, tout, auth) ==
    [user_address |-> user, receiving_address |-> recipient, amount_in |-> amount,
     min_amount_out |-> min_out, max_slippage_bps |-> slip, token_in |-> tin,
     token_out |-> tout, authorized |-> auth]

NoCall == Call("-", "-", 0, 0, 0, "-", "-", FALSE)

\* the private_swap calls tried: in one behaviour the clients of one family
\* call the contract
SelectionClients ==
    { Call("u1", "r1", 10, 9, 50, "A", "B", TRUE),
      Call("u2", "r2", 10, 10, 0, "A", "B", TRUE) }

PairClients ==
    { Call("u1", "r1", 10, 9, 50, "A", "B", TRUE),
      Call("u2", "r2", 10, 9, 50, "A", "B", TRUE),
      Call("u3", "r3", 10, 9, 50, "A", "B", TRUE),
      Call("u3", "r3", 10, 9, 50, "B", "A", TRUE) }

\* deposits of two pairs and one that asks for more than the pair gives
MixedClients ==
    { Call("u1", "r1", 10, 9, 50, "A", "B", TRUE),
      Call("u2", "r2", 10, 9, 50, "A", "B", TRUE),
      Call("u2", "r2", 10, 10, 0, "A", "B", TRUE),
      Call("u3", "r3", 10, 9, 50, "B", "A", TRUE) }

AdmissionClients ==
    { Call("u1", "r1", 10, 9, 50, "A", "B", TRUE),
      Call("u1", "r1", 10000, 9000, 50, "A", "B", TRUE),
      Call("u1", "r1", 2000, 1800, 50, "A", "B", TRUE),
      Call("u2", "r2", 50, 45, 50, "A", "B", TRUE),
      Call("u3", "r3", 10, 9, 50, "A", "B", FALSE) }

ClientFamilies == {SelectionClients, PairClients, MixedClients, AdmissionClients}

\* the pair's answers tried: steady reserves, an empty pair, reserves that
\* move between the selector's read and the payout's, and reserves that move
\* (up, down) between the payout's read and the swap's
ReserveScenarios ==
    { [rSel |-> <<1000, 1000>>, rPay |-> <<1000, 1000>>, rSwap |-> <<1000, 1000>>],
      [rSel |-> <<0, 0>>, rPay |-> <<0, 0>>, rSwap |-> <<0, 0>>],
      [rSel |-> <<1000, 1000>>, rPay |-> <<1000, 500>>, rSwap |-> <<1000, 500>>],
      [rSel |-> <<1000, 1000>>, rPay |-> <<1000, 1000>>, rSwap |-> <<1000, 2000>>],
      [rSel |-> <<1000, 1000>>, rPay |-> <<1000, 1000>>, rSwap |-> <<1000, 500>>] }

MixCall(symbol, max_deposits) == [symbol |-> symbol, max_deposits |-> max_deposits]

NoMixCall == MixCall("-", NoneU32)

\* the execute_coinjoin_mixing calls tried
MixCalls ==
    { MixCall("10", NoneU32), MixCall("10", SomeU32(2)), MixCall("10", SomeU32(3)) }

(* ------------------------------ actions ------------------------------- *)

Last(op, call, mix_call, result, ret, denomination, mix, log) ==
    [op |-> op, call |-> call, mix_call |-> mix_call, result |-> result,
     ret |-> ret, denomination |-> denomination, at |-> now,
     pre_pools |-> pools, pre_balances |-> balances,
     pre_config |-> <<owner, factoryAddr, routerAddr, coinjoinEnabled>>,
     pre_accounts |-> solana,
     args |-> <<>>, answer |-> <<>>, mix |-> mix, log |-> log]

Init ==
    /\ owner = "None"
    /\ factoryAddr = "None"
    /\ routerAddr = "None"
    /\ coinjoinEnabled = FALSE
    /\ pools = <<>>
    /\ nullifierUsed = {}
    /\ balances = [t \in Tokens |->
                     [a \in Accounts |->
                        IF a \in Users THEN UserFunds
                        ELSE IF a = "pair" THEN PairLiquidity ELSE 0]]
    /\ now = LedgerTimes[1]
    /\ nAccepted = 0
    /\ clients \in ClientFamilies
    /\ solana = NoAccounts
    /\ last = Last("none", NoCall, NoMixCall, "none", 0, "None", NoMix, <<>>)

\* SoroSwapBatcher::initialize
Initialize(o, f, r) ==
    IF IsInitialized
    THEN /\ last' = [Last("initialize", NoCall, NoMixCall, "AlreadyInitialized",
                          0, "None", NoMix, <<>>) EXCEPT !.args = <<o, f, r>>]
         /\ UNCHANGED <<owner, factoryAddr, routerAddr, coinjoinEnabled, pools,
                        nullifierUsed, balances, now, nAccepted, clients, solana>>
    ELSE /\ owner' = o
         /\ factoryAddr' = f
         /\ routerAddr' = r
         /\ pools' = InitCoinjoin
         /\ coinjoinEnabled' = TRUE
         /\ last' = [Last("initialize", NoCall, NoMixCall, "Ok", 0, "None",
                          NoMix, <<>>) EXCEPT !.args = <<o, f, r>>]
         /\ UNCHANGED <<nullifierUsed, balances, now, nAccepted, clients, solana>>

\* a match that hands the error of the execution on to the caller, as the
\* ? operator would
MatchExecutionResultPropagating(execution_status) ==
    CASE execution_status = "Ok" -> "Ok"
      [] execution_status = "Err" -> "Err"
      [] OTHER -> "Trap"

\* the match on execution_result that ends private_swap: what private_swap
\* returns for an execution that ended Ok, with Err, or in a trap of the host
MatchExecutionResult(execution_status) ==
    CASE execution_status = "Ok" -> "Ok"
      [] execution_status = "Err" -> "Ok"
      [] OTHER -> "Trap"

\* the outcome of private_swap(call) on the pools stored and the token ledger,
\* the pair answering sc
PrivateSwapOn(stored, ledger, call, sc) ==
    LET Out(result, ret, d, ps, bal, m, lg) ==
            [result |-> result, ret |-> ret, denomination |-> d, pools |-> ps,
             balances |-> bal, mix |-> m, log |-> lg]
        Fail(result, d, m, lg) == Out(result, 0, d, stored, ledger, m, lg)
        log1 == <<TransferEvent(call.token_in, call.user_address, "mixer",
                                call.amount_in)>>
        \* the end of private_swap, ex being the outcome of the execution
        Finish(denomination, ex, result) ==
            IF result # "Ok"
            THEN Fail(result, denomination, ex.mix, log1 \o ex.mix.log)
            ELSE Out("Ok", now, denomination, ex.pools, ex.balances, ex.mix,
                     log1 \o ex.mix.log)
        Execute(denomination, ex) ==
            Finish(denomination, ex, MatchExecutionResult(ex.mix.status))
        \* after the deposit dep: the pool status and the attempt to settle
        Deposited(denomination, bal1, dep) ==
            IF ~dep.ok THEN Fail(dep.err, denomination, NoMix, log1)
            ELSE IF CurrentPoolSize(dep.pools, denomination)
                      >= GetPool(dep.pools, denomination).minimum_pool_size
            THEN Execute(denomination,
                         TryExecuteBatchSwap(dep.pools, bal1, factoryAddr,
                                             denomination, call.token_in,
                                             call.token_out, sc))
            ELSE Out("Ok", now, denomination, dep.pools, bal1, NoMix, log1)
        Admitted(denomination) ==
            IF denomination = "None" THEN Fail("InvalidInput", "None", NoMix, <<>>)
            ELSE IF ~CanTransfer(ledger, call.token_in, call.user_address,
                                 call.amount_in)
            THEN Fail("Trap", denomination, NoMix, <<>>)
            ELSE Deposited(denomination,
                           Transfer(ledger, call.token_in, call.user_address,
                                    "mixer", call.amount_in),
                           Deposit(stored, coinjoinEnabled, now, denomination,
                                   CreateCommitment(now, call.receiving_address),
                                   CreateNullifier(now, call.user_address,
                                                   call.amount_in),
                                   call.user_address, call.receiving_address,
                                   call.max_slippage_bps, call.token_in,
                                   call.token_out, call.min_amount_out))
    IN  IF ~IsInitialized THEN Fail("NotInitialized", "None", NoMix, <<>>)
        ELSE IF ~call.authorized THEN Fail("Trap", "None", NoMix, <<>>)
        ELSE Admitted(FromAmount(call.amount_in))

\* the outcome of private_swap(call) in the current state, the pair answering sc
PrivateSwapOutcome(call, sc) == PrivateSwapOn(pools, balances, call, sc)

\* whether private_swap(call) reaches try_execute_batch_swap
ReachesSettlement(call) ==
    /\ IsInitialized
    /\ call.authorized
    /\ FromAmount(call.amount_in) # "None"
    /\ CanTransfer(balances, call.token_in, call.user_address, call.amount_in)
    /\ coinjoinEnabled
    /\ HasPool(pools, FromAmount(call.amount_in))
    /\ CurrentPoolSize(pools, FromAmount(call.amount_in)) + 1
          >= GetPool(pools, FromAmount(call.amount_in)).minimum_pool_size

\* SoroSwapBatcher::private_swap
PrivateSwap(call) ==
    /\ nAccepted < MaxTotalDeposits
    /\ \E sc \in (IF ReachesSettlement(call) THEN ReserveScenarios ELSE {NoScenario}) :
          \E out \in {PrivateSwapOutcome(call, sc)} :
              /\ pools' = out.pools
              /\ balances' = out.balances
              /\ nAccepted' = IF out.result = "Ok" THEN nAccepted + 1 ELSE nAccepted
              /\ last' = Last("private_swap", call, NoMixCall, out.result, out.ret,
                              out.denomination, out.mix, out.log)
    /\ UNCHANGED <<owner, factoryAddr, routerAddr, coinjoinEnabled, nullifierUsed,
                   now, clients, solana>>

\* the outcome of execute_coinjoin_mixing(mc) in the current state
ExecuteCoinjoinMixingOutcome(mc) ==
    LET denomination == SymbolToDenomination(mc.symbol)
        Out(result, ret, ps, m) ==
            [result |-> result, ret |-> ret, denomination |-> denomination,
             pools |-> ps, mix |-> m]
        Mixed(mr) ==
            IF ~mr.ok THEN Out(mr.err, 0, pools, NoMix)
            ELSE Out("Ok", mr.anonymity_set_size, mr.pools,
                     [NoMix EXCEPT
                        !.path = "execute_mixing",
                        !.status = IF mr.success THEN "Ok" ELSE "Skip",
                        !.denomination = denomination,
                        !.pre = GetPool(pools, denomination).deposits,
                        !.selected = mr.mixed,
                        !.post = GetPool(mr.pools, denomination).deposits,
                        !.pool_writes = IF mr.success THEN WrittenAfter(<<>>)
                                        ELSE <<>>])
    IN
    IF ~IsInitialized THEN Out("NotInitialized", 0, pools, NoMix)
    ELSE IF denomination = "None" THEN Out("InvalidInput", 0, pools, NoMix)
    ELSE Mixed(ExecuteMixing(pools, coinjoinEnabled, denomination, mc.max_deposits))

\* SoroSwapBatcher::execute_coinjoin_mixing
ExecuteCoinjoinMixing(mc) ==
    /\ \E out \in {ExecuteCoinjoinMixingOutcome(mc)} :
          /\ pools' = out.pools
          /\ last' = Last("execute_coinjoin_mixing", NoCall, mc, out.result, out.ret,
                          out.denomination, out.mix, <<>>)
    /\ UNCHANGED <<owner, factoryAddr, routerAddr, coinjoinEnabled, nullifierUsed,
                   balances, now, nAccepted, clients, solana>>

\* the ledger closes: the timestamp advances
AdvanceLedger ==
    /\ \E i \in 1..(Len(LedgerTimes) - 1) :
          now = LedgerTimes[i] /\ now' = LedgerTimes[i + 1]
    /\ UNCHANGED <<owner, factoryAddr, routerAddr, coinjoinEnabled, pools,
                   nullifierUsed, balances, nAccepted, clients, solana, last>>

Next ==
    \/ Initialize("owner", "factory", "router")
    \/ \E call \in clients : PrivateSwap(call)
    \/ \E mc \in MixCalls : ExecuteCoinjoinMixing(mc)
    \/ AdvanceLedger

Spec == Init /\ [][Next]_vars

(* ------------------------------ the getters --------------------------- *)

\* a read-only invocation: only the record of the latest invocation changes
Answer(op, args, result, answer) ==
    /\ last' = [Last(op, NoCall, NoMixCall, result, 0, "None", NoMix, <<>>)
                  EXCEPT !.args = args, !.answer = answer]
    /\ UNCHANGED <<owner, factoryAddr, routerAddr, coinjoinEnabled, pools,
                   nullifierUsed, balances, now, nAccepted, clients, solana>>

\* SoroSwapBatcher::get_coinjoin_stats
GetCoinjoinStats(denomination_symbol) ==
    LET denomination == SymbolToDenomination(denomination_symbol)
        Stats(stats) ==
            IF ~stats.ok
            THEN Answer("get_coinjoin_stats", <<denomination_symbol>>, stats.err, <<>>)
            ELSE Answer("get_coinjoin_stats", <<denomination_symbol>>, "Ok",
                        <<stats.current_pool_size, stats.current_fees,
                          stats.estimated_wait_time>>)
    IN  IF denomination = "None"
        THEN Answer("get_coinjoin_stats", <<denomination_symbol>>, "InvalidInput", <<>>)
        ELSE Stats(GetPoolStats(pools, denomination))

\* SoroSwapBatcher::get_deposit_details
GetDepositDetails(denomination_symbol, index) ==
    LET denomination == SymbolToDenomination(denomination_symbol)
        Details(deposit_info) ==
            IF ~deposit_info.ok
            THEN Answer("get_deposit_details", <<denomination_symbol, index>>,
                        deposit_info.err, <<>>)
            ELSE Answer("get_deposit_details", <<denomination_symbol, index>>, "Ok",
                        <<deposit_info.min_amount_out, deposit_info.max_slippage_bps,
                          deposit_info.expiry_timestamp, deposit_info.timestamp,
                          deposit_info.fee_paid>>)
    IN  IF denomination = "None"
        THEN Answer("get_deposit_details", <<denomination_symbol, index>>,
                    "InvalidInput", <<>>)
        ELSE Details(DepositInfo(pools, denomination, index))

\* SoroSwapBatcher::get_owner
GetOwner ==
    IF ~IsInitialized THEN Answer("get_owner", <<>>, "NotInitialized", <<>>)
    ELSE Answer("get_owner", <<>>, "Ok", <<owner>>)

\* SoroSwapBatcher::get_router
GetRouter ==
    IF ~IsInitialized THEN Answer("get_router", <<>>, "NotInitialized", <<>>)
    ELSE Answer("get_router", <<>>, "Ok", <<routerAddr>>)

\* SoroSwapBatcher::get_factory
GetFactory ==
    IF ~IsInitialized THEN Answer("get_factory", <<>>, "NotInitialized", <<>>)
    ELSE Answer("get_factory", <<>>, "Ok", <<factoryAddr>>)

\* the private_swap calls of a behaviour that also reads the contract
SurfaceClients ==
    { Call("u1", "r1", 10, 9, 50, "A", "B", TRUE),
      Call("u2", "r2", 10, 9, 50, "A", "B", TRUE) }

\* the symbols the getters are called with: a pool's and no pool's
SurfaceSymbols == {"10", "5"}

\* the indices get_deposit_details is called with
SurfaceIndices == {0, 2}

InitSurface ==
    /\ owner = "None"
    /\ factoryAddr = "None"
    /\ routerAddr = "None"
    /\ coinjoinEnabled = FALSE
    /\ pools = <<>>
    /\ nullifierUsed = {}
    /\ balances = [t \in Tokens |->
                     [a \in Accounts |->
                        IF a \in Users THEN UserFunds
                        ELSE IF a = "pair" THEN PairLiquidity ELSE 0]]
    /\ now = LedgerTimes[1]
    /\ nAccepted = 0
    /\ clients = SurfaceClients
    /\ solana = NoAccounts
    /\ last = Last("none", NoCall, NoMixCall, "none", 0, "None", NoMix, <<>>)

NextSurface ==
    \/ Initialize("owner", "factory", "router")
    \/ Initialize("owner2", "factory2", "router2")
    \/ \E call \in clients : PrivateSwap(call)
    \/ \E mc \in MixCalls : ExecuteCoinjoinMixing(mc)
    \/ AdvanceLedger
    \/ \E sym \in SurfaceSymbols : GetCoinjoinStats(sym)
    \/ \E sym \in SurfaceSymbols : \E index \in SurfaceIndices :
          GetDepositDetails(sym, index)
    \/ GetOwner
    \/ GetRouter
    \/ GetFactory

SpecSurface == InitSurface /\ [][NextSurface]_vars

(* ------------------------- a pool with a backlog ---------------------- *)

\* the private_swap of a backlog behaviour
BacklogClients == { Call("u1", "r1", 10, 8, 50, "A", "B", TRUE) }

BacklogUser(k) == <<"u1", "u2", "u3">>[((k - 1) % 3) + 1]

BacklogRecipient(k) == <<"r1", "r2", "r3">>[((k - 1) % 3) + 1]

\* the pools after n private_swap calls (10 A -> B, min 8, 50 bps, senders
\* u1, u2, u3 in turn) whose deposits were stored and whose settlement
\* attempts failed, as they do while the pair has no reserves
RECURSIVE BacklogPools(_)
BacklogPools(n) ==
    IF n = 0 THEN InitCoinjoin
    ELSE Deposit(BacklogPools(n - 1), TRUE, LedgerTimes[1], "Small",
                 CreateCommitment(LedgerTimes[1], BacklogRecipient(n)),
                 CreateNullifier(LedgerTimes[1], BacklogUser(n), 10),
                 BacklogUser(n), BacklogRecipient(n), 50, "A", "B", 8).pools

\* the balances after the n transfers of these calls to the contract
RECURSIVE BacklogBalances(_)
BacklogBalances(n) ==
    IF n = 0
    THEN [t \in Tokens |->
            [a \in Accounts |->
               IF a \in Users THEN UserFunds
               ELSE IF a = "pair" THEN PairLiquidity ELSE 0]]
    ELSE Transfer(BacklogBalances(n - 1), "A", BacklogUser(n), "mixer", 10)

\* an initialized contract whose Small pool holds up to MaxBacklog pending
\* deposits; one further private_swap is explored
InitBacklog ==
    /\ owner = "owner"
    /\ factoryAddr = "factory"
    /\ routerAddr = "router"
    /\ coinjoinEnabled = TRUE
    /\ \E n \in 0..MaxBacklog :
          /\ pools = BacklogPools(n)
          /\ balances = BacklogBalances(n)
    /\ nullifierUsed = {}
    /\ now = LedgerTimes[1]
    /\ nAccepted = MaxTotalDeposits - 1
    /\ clients = BacklogClients
    /\ solana = NoAccounts
    /\ last = Last("none", NoCall, NoMixCall, "none", 0, "None", NoMix, <<>>)

SpecBacklog == InitBacklog /\ [][Next]_vars

(* --------------------------- withdrawal requests ---------------------- *)

\* CoinJoinMixer::request_withdrawal
RequestWithdrawal(ps, enabled, used, timestamp, denomination, nullifier_hash, recipient_hash, proof_hash) ==
    LET Err(e) == [ok |-> FALSE, err |-> e, pools |-> ps, used |-> used]
        withdrawal == [nullifier_hash |-> nullifier_hash,
                       recipient_hash |-> recipient_hash,
                       proof_hash |-> proof_hash,
                       requested_timestamp |-> timestamp]
        WithPool(pool) ==
            IF IsNullifierUsed(used, nullifier_hash) THEN Err("InvalidInput")
            ELSE [ok |-> TRUE, err |-> "None",
                  pools |-> UpdatePool(ps, denomination,
                                       [pool EXCEPT !.withdrawals = Append(@, withdrawal)]),
                  used |-> used \cup {nullifier_hash}]
    IN  IF ~enabled THEN Err("InvalidInput")
        ELSE IF ~HasPool(ps, denomination) THEN Err("InvalidInput")
        ELSE WithPool(GetPool(ps, denomination))

\* the nullifiers requests are made with: those of a deposit of u1 at the two
\* ledger times
WithdrawalNullifiers ==
    { CreateNullifier(LedgerTimes[i], "u1", 10) : i \in 1..Len(LedgerTimes) }

\* the pools requests are made on
WithdrawalDenominations == {"Small", "Medium"}

\* a call of CoinJoinMixer::request_withdrawal on the contract's storage
RequestWithdrawalCall(denomination, nullifier_hash, recipient_hash, proof_hash) ==
    /\ \E out \in {RequestWithdrawal(pools, coinjoinEnabled, nullifierUsed, now,
                                     denomination, nullifier_hash, recipient_hash,
                                     proof_hash)} :
          /\ pools' = out.pools
          /\ nullifierUsed' = out.used
          /\ last' = [Last("request_withdrawal", NoCall, NoMixCall,
                           IF out.ok THEN "Ok" ELSE out.err, 0, denomination,
                           NoMix, <<>>)
                        EXCEPT !.args = <<denomination, nullifier_hash,
                                          recipient_hash, proof_hash>>]
    /\ UNCHANGED <<owner, factoryAddr, routerAddr, coinjoinEnabled, balances, now,
                   nAccepted, clients, solana>>

\* an initialized contract whose Small pool holds up to MinimumPoolSize
\* pending deposits; one further private_swap is explored
InitWithdrawal ==
    /\ owner = "owner"
    /\ factoryAddr = "factory"
    /\ routerAddr = "router"
    /\ coinjoinEnabled = TRUE
    /\ \E n \in 0..MinimumPoolSize :
          /\ pools = BacklogPools(n)
          /\ balances = BacklogBalances(n)
    /\ nullifierUsed = {}
    /\ now = LedgerTimes[1]
    /\ nAccepted = MaxTotalDeposits - 1
    /\ clients = BacklogClients
    /\ solana = NoAccounts
    /\ last = Last("none", NoCall, NoMixCall, "none", 0, "None", NoMix, <<>>)

NextWithdrawal ==
    \/ \E call \in clients : PrivateSwap(call)
    \/ \E mc \in MixCalls : ExecuteCoinjoinMixing(mc)
    \/ AdvanceLedger
    \/ \E denomination \in WithdrawalDenominations :
          \E nullifier_hash \in WithdrawalNullifiers :
              RequestWithdrawalCall(denomination, nullifier_hash, "r1", "proof")

SpecWithdrawal == InitWithdrawal /\ [][NextWithdrawal]_vars

(* ------------------------- a settlement re-entered -------------------- *)

\* private_swap(call) whose settlement is entered again: the pair, while it
\* runs the swap that try_execute_batch_swap asked for, calls
\* private_swap(inner), which runs as a whole on the storage and the ledger as
\* they are at that point (the deposit of call stored, the aggregated input
\* with the pair) and returns Ok; the settlement then goes on with the pool it
\* read at its start: it takes the output, pays the set and writes that pool,
\* pruned, over the stored one
PrivateSwapReentered(call, inner, sc, sci) ==
    /\ nAccepted + 2 <= MaxTotalDeposits
    /\ ReachesSettlement(call)
    /\ \E outer \in {PrivateSwapOutcome(call, sc)} :
          /\ outer.result = "Ok"
          /\ outer.mix.status = "Ok"
          /\ LET d == outer.denomination
                 written == GetPool(outer.pools, d)
                 delivered == IF PairToken0 = call.token_in THEN PairToken1
                              ELSE PairToken0
             IN  \E nested \in
                     {PrivateSwapOn(
                          UpdatePool(pools, d,
                                     [written EXCEPT !.deposits = outer.mix.pre]),
                          Transfer(Transfer(balances, call.token_in,
                                            call.user_address, "mixer",
                                            call.amount_in),
                                   call.token_in, "mixer", "pair",
                                   outer.mix.total_input),
                          inner, sci)} :
                     /\ nested.result = "Ok"
                     /\ CanTransfer(nested.balances, delivered, "pair",
                                    outer.mix.total_output)
                     /\ \E paid \in
                            {PayAll(Transfer(nested.balances, delivered, "pair",
                                             "mixer", outer.mix.total_output),
                                    call.token_out, outer.mix.selected, 1,
                                    outer.mix.share)} :
                            /\ paid.ok
                            /\ balances' = paid.balances
                     /\ pools' = UpdatePool(nested.pools, d, written)
                     /\ last' = [Last("private_swap", call, NoMixCall, "Ok",
                                      outer.ret, d, outer.mix, outer.log)
                                   EXCEPT !.op = "private_swap_reentered",
                                          !.args = <<inner, nested.pools,
                                                     nested.mix.status>>]
    /\ nAccepted' = nAccepted + 2
    /\ UNCHANGED <<owner, factoryAddr, routerAddr, coinjoinEnabled, nullifierUsed,
                   now, clients, solana>>

\* an initialized contract whose Small pool holds up to MinimumPoolSize
\* pending deposits; two further private_swap calls are explored
InitReentry ==
    /\ owner = "owner"
    /\ factoryAddr = "factory"
    /\ routerAddr = "router"
    /\ coinjoinEnabled = TRUE
    /\ \E n \in 0..MinimumPoolSize :
          /\ pools = BacklogPools(n)
          /\ balances = BacklogBalances(n)
    /\ nullifierUsed = {}
    /\ now = LedgerTimes[1]
    /\ nAccepted = MaxTotalDeposits - 2
    /\ clients = SurfaceClients
    /\ solana = NoAccounts
    /\ last = Last("none", NoCall, NoMixCall, "none", 0, "None", NoMix, <<>>)

NextReentry ==
    \/ \E call \in clients : PrivateSwap(call)
    \/ \E call \in clients : \E inner \in clients :
          \E sc \in ReserveScenarios : \E sci \in ReserveScenarios :
              PrivateSwapReentered(call, inner, sc, sci)
    \/ \E mc \in MixCalls : ExecuteCoinjoinMixing(mc)
    \/ AdvanceLedger

SpecReentry == InitReentry /\ [][NextReentry]_vars

(* --------------------- the Solana program's instructions -------------- *)

\* an instruction of the Solana program: only its accounts and the record of
\* the latest invocation change
ProgramInstruction(op, args, out) ==
    /\ solana' = out.accounts
    /\ last' = [Last(op, NoCall, NoMixCall, out.err, 0, "None", NoMix, <<>>)
                  EXCEPT !.args = args]
    /\ UNCHANGED <<owner, factoryAddr, routerAddr, coinjoinEnabled, pools,
                   nullifierUsed, balances, now, nAccepted, clients>>

InitializeConfig ==
    ProgramInstruction("initialize_config", <<"factory", "router">>,
                 initialize_config(solana, "payer", "factory", "router"))

\* the denominations init_pool is called with: a supported one and another
PoolDenominations == {DENOM_SMALL, 5}

\* the sizes init_pool is called with
PoolSizes == {1, 2, 3}

InitPool(denomination, min_pool_size, max_pool_size) ==
    ProgramInstruction("init_pool", <<denomination, min_pool_size, max_pool_size>>,
                 init_pool(solana, denomination, 10, min_pool_size, max_pool_size))

\* the mints deposit is called with: the pool's and another
DepositMints == {"mint", "other"}

DepositInstruction(mint) ==
    /\ solana.pool.total_deposits < MaxPoolDeposits
    /\ ProgramInstruction("deposit", <<mint>>, batch_deposit(solana, mint, "depositor"))

\* the remaining accounts execute_mixing is called with: up to
\* MaxPoolDeposits of the recipients' token accounts, the vault, and a token
\* account of another mint, in every order and with repetitions
RemainingAccounts ==
    UNION { [1..n -> {"ra", "rb", "vault", "foreign"}] : n \in 0..MaxPoolDeposits }

ExecuteMixingInstruction(remaining_accounts) ==
    ProgramInstruction("execute_mixing", <<remaining_accounts>>,
                 execute_mixing(solana, remaining_accounts))

InitSolana ==
    /\ owner = "None"
    /\ factoryAddr = "None"
    /\ routerAddr = "None"
    /\ coinjoinEnabled = FALSE
    /\ pools = <<>>
    /\ nullifierUsed = {}
    /\ balances = [t \in Tokens |->
                     [a \in Accounts |->
                        IF a \in Users THEN UserFunds
                        ELSE IF a = "pair" THEN PairLiquidity ELSE 0]]
    /\ now = LedgerTimes[1]
    /\ nAccepted = 0
    /\ clients = {}
    /\ solana = NoAccounts
    /\ last = Last("none", NoCall, NoMixCall, "none", 0, "None", NoMix, <<>>)

NextSolana ==
    \/ InitializeConfig
    \/ \E denomination \in PoolDenominations :
          \E min_pool_size \in PoolSizes : \E max_pool_size \in PoolSizes :
              InitPool(denomination, min_pool_size, max_pool_size)
    \/ \E mint \in DepositMints : DepositInstruction(mint)
    \/ \E remaining_accounts \in RemainingAccounts :
          ExecuteMixingInstruction(remaining_accounts)

SpecSolana == InitSolana /\ [][NextSolana]_vars

(* ----------------- the calculator, the sort and the selector ---------- *)

\* The three functions of CoinJoinMixer called on their own, on lists of
\* deposits as deposit() stores them.

PureCalls ==
    << Call("u1", "r1", 10, 9, 50, "A", "B", TRUE),
       Call("u2", "r2", 10, 9, 50, "A", "B", TRUE),
       Call("u3", "r3", 10, 8, 50, "A", "B", TRUE),
       Call("u2", "r2", 10, 10, 0, "A", "B", TRUE),
       Call("u3", "r3", 10, 9, 50, "B", "A", TRUE) >>

\* the deposit that deposit() stores for a call
StoredDeposit(call) ==
    GetPool(Deposit(InitCoinjoin, TRUE, LedgerTimes[1], "Small",
                    CreateCommitment(LedgerTimes[1], call.receiving_address),
                    CreateNullifier(LedgerTimes[1], call.user_address, call.amount_in),
                    call.user_address, call.receiving_address, call.max_slippage_bps,
                    call.token_in, call.token_out, call.min_amount_out).pools,
            "Small").deposits[1]

\* the choices of up to MaxListLen different calls, in every order
Picks ==
    { p \in UNION { [1..n -> 1..Len(PureCalls)] : n \in 0..MaxListLen } :
          \A i, j \in 1..Len(p) : i # j => p[i] # p[j] }

ListOf(p) == <<>> \o [i \in 1..Len(p) |-> StoredDeposit(PureCalls[p[i]])]

\* the lists tried with the sort and the selector
PureLists == { ListOf(p) : p \in Picks }

\* the lists tried with the calculator: the choices in the order of PureCalls
PayoutLists ==
    { ListOf(p) : p \in { q \in Picks : \A i, j \in 1..Len(q) : i < j => q[i] < q[j] } }

RECURSIVE Pow10(_)
Pow10(k) ==
    IF k <= 9 THEN IntOf(10 ^ k) ELSE IntMul(IntOf(1000000000), Pow10(k - 9))

\* the reserves (of A, of B) tried, in stroops: the pair of scenario S1, a
\* pair without token B, and pairs that hold a token of many decimals
PureReserves128 ==
    { <<Pow10(9), Pow10(9)>>, <<Pow10(9), Zero128>>,
      <<Pow10(9), Pow10(29)>>, <<Pow10(36), Pow10(9)>> }

\* the reserves tried with the selector, in units of 10^6 stroops
PureReserves == { <<1000, 1000>>, <<1000, 500>>, <<0, 0>> }

\* deposits with min_amount_out as an i128 in stroops
InStroops128(deposits) ==
    <<>> \o [i \in 1..Len(deposits) |->
                [deposits[i] EXCEPT
                    !.min_amount_out = IntMul(IntOf(@), IntOf(1000000))]]

InitPure ==
    /\ owner = "owner"
    /\ factoryAddr = "factory"
    /\ routerAddr = "router"
    /\ coinjoinEnabled = TRUE
    /\ pools = InitCoinjoin
    /\ nullifierUsed = {}
    /\ balances = [t \in Tokens |->
                     [a \in Accounts |->
                        IF a \in Users THEN UserFunds
                        ELSE IF a = "pair" THEN PairLiquidity ELSE 0]]
    /\ now = LedgerTimes[1]
    /\ nAccepted = 0
    /\ clients = {}
    /\ solana = NoAccounts
    /\ last = Last("none", NoCall, NoMixCall, "none", 0, "None", NoMix, <<>>)

\* The functions keep no state: a behaviour makes one call.

\* CoinJoinMixer::sort_deposits_by_min_amount
SortDepositsCall(deposits) ==
    last.op = "none" /\
    Answer("sort_deposits_by_min_amount", <<deposits>>, "Ok",
           <<SortDepositsByMinAmount(deposits)>>)

\* CoinJoinMixer::find_optimal_participant_set
FindOptimalParticipantSetCall(deposits, reserves) ==
    last.op = "none" /\
    \E found \in {FindOptimalParticipantSet(pools, factoryAddr, "Small", deposits, reserves)} :
        Answer("find_optimal_participant_set", <<deposits, reserves>>,
               IF found.ok THEN "Ok" ELSE found.err, <<found.set>>)

\* CoinJoinMixer::calculate_equal_payout
CalculateEqualPayoutCall(checked, deposits, reserves) ==
    last.op = "none" /\
    \E info \in {CalculateEqualPayout128(checked, factoryAddr, "Small",
                                         InStroops128(deposits), reserves)} :
        Answer("calculate_equal_payout", <<checked, deposits, reserves>>,
               IF info.kind = "Err" THEN info.err ELSE info.kind, <<info>>)

NextPure ==
    \/ \E deposits \in PureLists : SortDepositsCall(deposits)
    \/ \E deposits \in PureLists : \E reserves \in PureReserves :
          FindOptimalParticipantSetCall(deposits, reserves)
    \/ \E checked \in BOOLEAN : \E deposits \in PayoutLists :
          \E reserves \in PureReserves128 :
              CalculateEqualPayoutCall(checked, deposits, reserves)

SpecPure == InitPure /\ [][NextPure]_vars

(* ------------------------------ properties ---------------------------- *)

\* the invocation recorded in last was committed and settled a set
Settled == last.result = "Ok" /\ last.mix.status = "Ok"

SettledBySwap == Settled /\ last.mix.path = "try_execute_batch_swap"

SumAmounts(events) ==
    LET RECURSIVE Sum(_)
        Sum(i) == IF i = 0 THEN 0 ELSE events[i].amount + Sum(i - 1)
    IN  Sum(Len(events))

\* the transfers of token out of account from in the log, in order
TransfersFrom(log, from, token) ==
    SelectSeq(log, LAMBDA e : e.kind = "transfer" /\ e.from = from /\ e.token = token)

\* the places <<pool, position>> that hold a deposit
StoredDeposits(ps) ==
    UNION {{<<sym, i>> : i \in 1..Len(ps[sym].deposits)} : sym \in DOMAIN ps}

\* C1: on an initialized contract, with the user's authorization and enough
\* token_in, private_swap succeeds exactly for amount_in in {10_000_000,
\* 100_000_000, 1_000_000_000, 2_000_000_000} (10, 100, 1000, 2000 in units
\* of 10^6); for any other amount it fails with InvalidInput, stores no deposit
\* and moves no token.
C1_DenominationAdmission ==
    ( /\ last.op = "private_swap"
      /\ IsInitialized
      /\ last.call.authorized
      /\ CanTransfer(last.pre_balances, last.call.token_in, last.call.user_address,
                     last.call.amount_in) )
    => IF last.call.amount_in \in {10, 100, 1000, 2000}
       THEN last.result = "Ok"
       ELSE /\ last.result = "InvalidInput"
            /\ pools = last.pre_pools
            /\ balances = last.pre_balances

\* C2: no settlement, by private_swap or by execute_coinjoin_mixing, removes
\* deposits or moves tokens while the pool holds deposits of fewer than
\* minimum_pool_size distinct sender addresses.
C2_UniqueSenderGate ==
    Settled =>
        Cardinality({last.mix.pre[i].sender_address : i \in DOMAIN last.mix.pre})
            >= GetPool(last.pre_pools, last.denomination).minimum_pool_size

\* C3: every deposit an invocation removes from a pool has been paid, by a
\* transfer of that invocation, the equal share of token_out at its recipient
\* address: per recipient and token, at least as many payouts as removals.
C3_RemovedDepositsArePaid ==
    Settled =>
        \A r \in Recipients, t \in Tokens :
            LET Mine(d) == d.recipient_address = r /\ d.token_out = t
                Payout(e) == /\ e.kind = "transfer" /\ e.from = "mixer"
                             /\ e.to = r /\ e.token = t
                             /\ e.amount = last.mix.share
                Count(seq, Test(_)) == Cardinality({i \in DOMAIN seq : Test(seq[i])})
            IN  Count(last.mix.pre, Mine) - Count(last.mix.post, Mine)
                    <= Count(last.log, Payout)

\* C4: when the settlement attempted by private_swap returns an error, the
\* invocation still succeeds and returns the ledger timestamp, the new deposit
\* is the last of its pool, whose earlier deposits are untouched, and the
\* user's token_in balance went down by exactly the denomination.
C4_DepositSurvivesFailedSettlement ==
    ( /\ last.op = "private_swap"
      /\ last.mix.path = "try_execute_batch_swap"
      /\ last.mix.status = "Err" )
    => LET call == last.call
           before == GetPool(last.pre_pools, last.denomination).deposits
           after == GetPool(pools, last.denomination).deposits
           D == DenominationValue(last.denomination)
       IN  /\ last.result = "Ok"
           /\ last.ret = last.at
           /\ Len(after) = Len(before) + 1
           /\ SubSeq(after, 1, Len(before)) = before
           /\ after[Len(after)].sender_address = call.user_address
           /\ after[Len(after)].recipient_address = call.receiving_address
           /\ after[Len(after)].token_in = call.token_in
           /\ after[Len(after)].token_out = call.token_out
           /\ after[Len(after)].min_amount_out = call.min_amount_out
           /\ after[Len(after)].max_slippage_bps = call.max_slippage_bps
           /\ after[Len(after)].timestamp = last.at
           /\ call.amount_in = D
           /\ balances[call.token_in][call.user_address]
                = last.pre_balances[call.token_in][call.user_address] - D
           /\ balances[call.token_in]["mixer"]
                = last.pre_balances[call.token_in]["mixer"] + D
           /\ \A sym \in DOMAIN pools :
                  sym # DenominationSymbol(last.denomination)
                      => pools[sym] = last.pre_pools[sym]

\* a private_swap kept its deposit although its settlement returned an error
C4_Witness ==
    /\ last.op = "private_swap"
    /\ last.mix.status = "Err"
    /\ last.mix.err = "InsufficientBalance"
    /\ last.result = "Ok"
    /\ Len(GetPool(pools, last.denomination).deposits) >= 3

\* C5: no two stored deposits share a nullifier, two private_swap calls of
\* the same amount in the same ledger included.
C5_NullifierUniqueness ==
    \A x \in StoredDeposits(pools), y \in StoredDeposits(pools) :
        x # y => pools[x[1]].deposits[x[2]].nullifier
                    # pools[y[1]].deposits[y[2]].nullifier

\* post is pre without the deposits at the positions removed
KeepsAllBut(pre, removed, post) ==
    post = [i \in 1..(Len(pre) - Cardinality(removed)) |->
               pre[CHOOSE p \in (1..Len(pre)) \ removed :
                       Cardinality({q \in (1..Len(pre)) \ removed : q < p}) = i - 1]]

\* C6: after a successful settlement of the selected set S the pool's pending
\* list is the list before the settlement without exactly the deposits of S:
\* as many positions are removed as S has members, the removed deposits are
\* those of S, and the others stay, in their order.
C6_PruningRemovesExactlyS ==
    Settled =>
        \E removed \in SUBSET (1..Len(last.mix.pre)) :
            /\ Cardinality(removed) = Len(last.mix.selected)
            /\ \A i \in removed :
                   Cardinality({j \in removed : last.mix.pre[j] = last.mix.pre[i]})
                     = Cardinality({j \in DOMAIN last.mix.selected :
                                       last.mix.selected[j] = last.mix.pre[i]})
            /\ KeepsAllBut(last.mix.pre, removed, last.mix.post)

\* C7: every deposit a settlement pays satisfies its own constraints against
\* the reserves the swap is executed on: the share paid is at least its
\* min_amount_out and the realized slippage at most its max_slippage_bps,
\* also when the reserves change between the selector's read and the swap.
C7_ConstraintsAtSwapReserves ==
    SettledBySwap =>
        LET S == last.mix.selected
            at_swap == CalculateEqualPayout(factoryAddr, last.denomination, S,
                                            last.mix.reads.rSwap)
            payouts == TransfersFrom(last.mix.log, "mixer", last.mix.token_out)
        IN  \A i \in 1..Len(S) :
                /\ payouts[i].to = S[i].recipient_address
                /\ payouts[i].amount >= S[i].min_amount_out
                /\ at_swap.equal_payout_amount >= S[i].min_amount_out
                /\ at_swap.slippage_bps <= S[i].max_slippage_bps

\* C8: every deposit of a settled set is paid the same amount, and that
\* amount is floor(total_out / |S|), total_out being the constant-product
\* output of the input |S| * D that the settlement requests from the swap.
C8_EqualPayout ==
    SettledBySwap =>
        LET S == last.mix.selected
            payouts == TransfersFrom(last.mix.log, "mixer", last.mix.token_out)
            swaps == SelectSeq(last.mix.log, LAMBDA e : e.kind = "swap")
            total_out == swaps[1].amount_0_out + swaps[1].amount_1_out
        IN  /\ Len(payouts) = Len(S)
            /\ Len(swaps) = 1
            /\ \A i \in 1..Len(payouts) : payouts[i].amount = total_out \div Len(S)

\* C9: in a settlement the token_in sent to the pair is |S| * D, the token_out
\* paid out is |S| * share, and the rest total_out - |S| * share of the
\* token_out received from the swap is between 0 and |S| - 1.
C9_AccountingClosure ==
    SettledBySwap =>
        LET S == last.mix.selected
            D == DenominationValue(last.denomination)
            sent == TransfersFrom(last.mix.log, "mixer", last.mix.token_in)
            payouts == TransfersFrom(last.mix.log, "mixer", last.mix.token_out)
            swaps == SelectSeq(last.mix.log, LAMBDA e : e.kind = "swap")
            total_out == swaps[1].amount_0_out + swaps[1].amount_1_out
            residue == total_out - SumAmounts(payouts)
        IN  /\ SumAmounts(SelectSeq(sent, LAMBDA e : e.to = "pair")) = Len(S) * D
            /\ SumAmounts(payouts) = Len(S) * last.mix.share
            /\ residue >= 0
            /\ residue <= Len(S) - 1

\* deposits in ascending order of min_amount_out, equal ones in their order
\* in the list
AscendingByMin(deposits) ==
    LET n == Len(deposits)
        Before(i, j) ==
            \/ deposits[i].min_amount_out < deposits[j].min_amount_out
            \/ /\ deposits[i].min_amount_out = deposits[j].min_amount_out
               /\ i < j
        Rank(i) == Cardinality({j \in 1..n : Before(j, i)}) + 1
    IN  [k \in 1..n |-> deposits[CHOOSE i \in 1..n : Rank(i) = k]]

SamePair(deposits) ==
    \A i \in 1..Len(deposits) :
        /\ deposits[i].token_in = deposits[1].token_in
        /\ deposits[i].token_out = deposits[1].token_out

\* the first k of the ascending list all accept share(k) and slip(k)
PrefixQualifies(ascending, k, denomination, reserves) ==
    LET info == CalculateEqualPayout(factoryAddr, denomination,
                                     SubSeq(ascending, 1, k), reserves)
    IN  /\ info.ok
        /\ \A i \in 1..k :
               /\ info.equal_payout_amount >= ascending[i].min_amount_out
               /\ info.slippage_bps <= ascending[i].max_slippage_bps

AtPositions(deposits, T) ==
    LET Nth(k) == CHOOSE p \in T : Cardinality({q \in T : q < p}) = k - 1
    IN  [k \in 1..Cardinality(T) |-> deposits[Nth(k)]]

\* every member of the set accepts the share and the slippage of the set
Feasible(set, denomination, reserves) ==
    LET info == CalculateEqualPayout(factoryAddr, denomination, set, reserves)
    IN  /\ info.ok
        /\ \A i \in 1..Len(set) :
               /\ info.equal_payout_amount >= set[i].min_amount_out
               /\ info.slippage_bps <= set[i].max_slippage_bps

\* C11: the set find_optimal_participant_set returns is feasible and no
\* subset of the pending deposits, of any composition, with more members is
\* feasible at the same reserves; when it fails with InsufficientBalance no
\* subset of at least minimum_pool_size members is feasible.
C11_MaximumFeasibleSet ==
    (last.mix.path = "try_execute_batch_swap" /\ last.mix.pre # <<>>) =>
        LET all_deposits == last.mix.pre
            m == GetPool(last.pre_pools, last.denomination).minimum_pool_size
            FeasibleAt(T) == Feasible(AtPositions(all_deposits, T),
                                      last.denomination, last.mix.reads.rSel)
            subsets == SUBSET (1..Len(all_deposits))
        IN  /\ last.mix.found = "Ok" =>
                /\ Feasible(last.mix.selected, last.denomination,
                            last.mix.reads.rSel)
                /\ \A T \in subsets :
                       Cardinality(T) > Len(last.mix.selected) => ~FeasibleAt(T)
            /\ last.mix.found = "InsufficientBalance" =>
                   \A T \in subsets : Cardinality(T) >= m => ~FeasibleAt(T)

\* the selector returned three of four deposits, leaving out the one that
\* arrived first
C11_Witness ==
    /\ last.mix.found = "Ok"
    /\ Len(last.mix.pre) = 4
    /\ Len(last.mix.selected) = 3
    /\ last.mix.pre[1].min_amount_out > last.mix.share
    /\ \A i \in 1..3 : last.mix.selected[i] = last.mix.pre[i + 1]

\* C12: a settlement is all or nothing.  When try_execute_batch_swap returns
\* an error it has issued no transfer and no swap and the pool is as it
\* found it; when it traps the whole invocation is rolled back; when it
\* succeeds it has sent |S| * D to the pair, swapped once, paid each of the
\* |S| deposits its share and pruned the pool: no state has part of a set paid.
C12_AllOrNothing ==
    (last.op = "private_swap" /\ last.mix.path = "try_execute_batch_swap") =>
        LET call == last.call
            S == last.mix.selected
            D == DenominationValue(last.denomination)
            deposited == Transfer(last.pre_balances, call.token_in,
                                  call.user_address, "mixer", call.amount_in)
            PaidTo(r) == Cardinality({i \in 1..Len(S) : S[i].recipient_address = r})
        IN  /\ last.mix.status \in {"Ok", "Err", "Trap"}
            /\ last.mix.status = "Err" =>
                   /\ last.mix.log = <<>>
                   /\ balances = deposited
                   /\ GetPool(pools, last.denomination).deposits = last.mix.pre
            /\ last.mix.status = "Trap" =>
                   /\ last.result = "Trap"
                   /\ pools = last.pre_pools
                   /\ balances = last.pre_balances
            /\ last.mix.status = "Ok" =>
                   /\ Len(last.mix.log) = Len(S) + 2
                   /\ last.mix.log[1] = TransferEvent(call.token_in, "mixer", "pair",
                                                      Len(S) * D)
                   /\ last.mix.log[2].kind = "swap"
                   /\ \A i \in 1..Len(S) :
                          last.mix.log[i + 2]
                            = TransferEvent(call.token_out, "mixer",
                                            S[i].recipient_address, last.mix.share)
                   /\ \A r \in Recipients :
                          balances[call.token_out][r]
                            = last.pre_balances[call.token_out][r]
                                + last.mix.share * PaidTo(r)
                   /\ balances[call.token_in]["pair"]
                        = last.pre_balances[call.token_in]["pair"] + Len(S) * D
                   /\ balances[call.token_out]["mixer"]
                        = last.pre_balances[call.token_out]["mixer"]
                            + last.mix.total_output - Len(S) * last.mix.share
                   /\ GetPool(pools, last.denomination).deposits = last.mix.post
                   /\ Len(last.mix.post) <= Len(last.mix.pre) - Len(S)

\* a settlement trapped after the transfer to the pair and the swap, and
\* left nothing behind
C12_Witness ==
    /\ last.op = "private_swap"
    /\ last.mix.status = "Trap"
    /\ Len(last.mix.log) = 2
    /\ last.mix.total_output < Len(last.mix.selected) * last.mix.share
    /\ balances = last.pre_balances

\* the deposits of a list for the token pair (token_in, token_out)
OfPair(deposits, token_in, token_out) ==
    SelectSeq(deposits, LAMBDA d : d.token_in = token_in /\ d.token_out = token_out)

\* C13: when a pool holds at least minimum_pool_size deposits of the pair P
\* of the call, of as many distinct senders and with constraints the reserves
\* satisfy, the settlement succeeds also if the pool holds deposits of
\* another pair Q, and the Q deposits stay in the pool.
C13_OtherPairDoesNotBlock ==
    ( /\ last.op = "private_swap"
      /\ last.mix.path = "try_execute_batch_swap"
      /\ last.mix.reads.rSel = last.mix.reads.rPay
      /\ last.mix.reads.rPay = last.mix.reads.rSwap )
    => LET call == last.call
           m == GetPool(last.pre_pools, last.denomination).minimum_pool_size
           P == OfPair(last.mix.pre, call.token_in, call.token_out)
           Q == SelectSeq(last.mix.pre,
                          LAMBDA d : d.token_in # call.token_in
                                        \/ d.token_out # call.token_out)
       IN  ( /\ Len(P) >= m
             /\ Cardinality({P[i].sender_address : i \in 1..Len(P)}) >= m
             /\ Feasible(P, last.denomination, last.mix.reads.rSel) )
           => /\ last.mix.status = "Ok"
              /\ last.result = "Ok"
              /\ SelectSeq(GetPool(pools, last.denomination).deposits,
                           LAMBDA d : d.token_in # call.token_in
                                         \/ d.token_out # call.token_out) = Q

\* C14: the deposits one invocation retires, by the settlement of
\* private_swap or by execute_coinjoin_mixing, all have the same pair
\* (token_in, token_out).
C14_RetiredTogetherSharePair ==
    Settled =>
        LET retired == {last.mix.selected[i] : i \in 1..Len(last.mix.selected)}
                         \cup ({last.mix.pre[i] : i \in 1..Len(last.mix.pre)}
                                 \ {last.mix.post[i] : i \in 1..Len(last.mix.post)})
        IN  \A d \in retired, e \in retired :
                d.token_in = e.token_in /\ d.token_out = e.token_out

DistinctSenders(deposits) ==
    Cardinality({deposits[i].sender_address : i \in 1..Len(deposits)})

\* the latest invocation is execute_coinjoin_mixing for a pool that exists
MixingCalled ==
    /\ last.op = "execute_coinjoin_mixing"
    /\ IsInitialized
    /\ last.denomination # "None"
    /\ HasPool(last.pre_pools, last.denomination)

\* C15: execute_coinjoin_mixing on a pool with fewer distinct senders than
\* minimum_pool_size returns 0 and leaves the deposits of every pool, in
\* content and order, and every token balance as they were.
C15_MixingBelowGateIsNoOp ==
    MixingCalled =>
        LET pool == GetPool(last.pre_pools, last.denomination)
        IN  DistinctSenders(pool.deposits) < pool.minimum_pool_size
            => /\ last.result = "Ok"
               /\ last.ret = 0
               /\ pools = last.pre_pools
               /\ balances = last.pre_balances

\* three deposits, two of them of one sender, and a mixing that did nothing
C15_Witness ==
    /\ MixingCalled
    /\ Len(GetPool(last.pre_pools, last.denomination).deposits) = 3
    /\ DistinctSenders(GetPool(last.pre_pools, last.denomination).deposits) = 2
    /\ last.ret = 0
    /\ Len(GetPool(pools, last.denomination).deposits) = 3

\* C16: execute_coinjoin_mixing(symbol, Some(c)) on a pool of N deposits with
\* at least minimum_pool_size distinct senders takes at most c deposits,
\* returns the number taken, min(N, c), removes exactly those, the first of
\* the pool, and leaves the others in their order.
C16_MixingCap ==
    (MixingCalled /\ last.mix_call.max_deposits.is_some) =>
        LET pool == GetPool(last.pre_pools, last.denomination)
            N == Len(pool.deposits)
            c == last.mix_call.max_deposits.value
            k == IF N > c THEN c ELSE N
        IN  DistinctSenders(pool.deposits) >= pool.minimum_pool_size
            => /\ last.result = "Ok"
               /\ last.ret = k
               /\ last.mix.selected = SubSeq(pool.deposits, 1, k)
               /\ GetPool(pools, last.denomination).deposits
                    = SubSeq(pool.deposits, k + 1, N)
               /\ \A sym \in DOMAIN pools :
                      sym # DenominationSymbol(last.denomination)
                          => pools[sym] = last.pre_pools[sym]

\* a cap of three on a pool of four: three are taken, the fourth stays
C16_Witness ==
    /\ MixingCalled
    /\ last.mix_call.max_deposits = SomeU32(3)
    /\ Len(GetPool(last.pre_pools, last.denomination).deposits) = 4
    /\ last.ret = 3
    /\ GetPool(pools, last.denomination).deposits
         = <<GetPool(last.pre_pools, last.denomination).deposits[4]>>

\* C17: no settled set holds a deposit whose expiry_timestamp, its timestamp
\* plus 48 hours, is earlier than the ledger time of the settlement.
C17_NoExpiredDepositSettles ==
    Settled =>
        \A i \in 1..Len(last.mix.selected) :
            /\ last.mix.selected[i].expiry_timestamp
                 = last.mix.selected[i].timestamp + ExpiryDelta
            /\ last.mix.selected[i].expiry_timestamp >= last.at

\* C18: no settled set is larger than the pool's maximum_pool_size (10), also
\* when more deposits than that are pending.
C18_SettledSetWithinMaximum ==
    Settled =>
        Len(last.mix.selected)
            <= GetPool(last.pre_pools, last.denomination).maximum_pool_size

PublicCalls ==
    {"private_swap", "execute_coinjoin_mixing", "get_coinjoin_stats",
     "get_deposit_details", "get_owner", "get_router", "get_factory"}

\* C19: every public call made before initialize has completed
\* (private_swap, execute_coinjoin_mixing, get_coinjoin_stats,
\* get_deposit_details, get_owner, get_router, get_factory) fails with
\* NotInitialized.
C19_NotInitializedBeforeInitialize ==
    (last.op \in PublicCalls /\ last.pre_config[1] = "None")
        => last.result = "NotInitialized"

\* C20: a call of initialize after one that succeeded fails with
\* AlreadyInitialized and leaves the owner, the factory address, the router
\* address, the coinjoin_enabled flag and every pool with its pending
\* deposits as they were.
C20_SecondInitializeChangesNothing ==
    (last.op = "initialize" /\ last.pre_config[1] # "None")
        => /\ last.result = "AlreadyInitialized"
           /\ <<owner, factoryAddr, routerAddr, coinjoinEnabled>> = last.pre_config
           /\ pools = last.pre_pools

\* initialize is called again with other addresses while a deposit is pending
C20_Witness ==
    /\ last.op = "initialize"
    /\ last.result = "AlreadyInitialized"
    /\ last.args # <<owner, factoryAddr, routerAddr>>
    /\ \E sym \in DOMAIN pools : Len(pools[sym].deposits) > 0

\* C21: immediately after a successful initialize the mixer is enabled, the
\* owner, factory and router are the addresses given, and each of the four
\* denomination symbols has a pool with no deposits, minimum_pool_size 3,
\* maximum_pool_size 10 and a fee of 10 bps, whose statistics are
\* (pool size 0, fee 10, wait time 15).
C21_StateAfterInitialize ==
    (last.op = "initialize" /\ last.result = "Ok") =>
        /\ coinjoinEnabled
        /\ <<owner, factoryAddr, routerAddr>> = last.args
        /\ DOMAIN pools = {"10", "100", "1K", "10K"}
        /\ \A d \in Denominations :
              /\ HasPool(pools, d)
              /\ GetPool(pools, d).denomination = d
              /\ GetPool(pools, d).deposits = <<>>
              /\ GetPool(pools, d).minimum_pool_size = 3
              /\ GetPool(pools, d).maximum_pool_size = 10
              /\ GetPool(pools, d).fee_basis_points = 10
              /\ GetPoolStats(pools, d).ok
              /\ GetPoolStats(pools, d).current_pool_size = 0
              /\ GetPoolStats(pools, d).current_fees = 10
              /\ GetPoolStats(pools, d).estimated_wait_time = 15

\* initialize has just succeeded with the second set of addresses
C21_Witness ==
    /\ last.op = "initialize"
    /\ last.result = "Ok"
    /\ owner = "owner2"
    /\ GetPoolStats(pools, "ExtraLarge").estimated_wait_time = 15

\* C22: get_pool_stats, as get_coinjoin_stats hands it out, reports
\* current_pool_size = len(pool.deposits), the pool's fee_basis_points and
\* estimated_wait_time = max(0, minimum_pool_size - current_pool_size) * 5,
\* for every denomination once the pools exist.
C22_PoolStats ==
    /\ IsInitialized =>
          \A d \in Denominations :
              LET pool == GetPool(pools, d)
                  stats == GetPoolStats(pools, d)
                  short == pool.minimum_pool_size - Len(pool.deposits)
              IN  /\ stats.ok
                  /\ stats.current_pool_size = Len(pool.deposits)
                  /\ stats.current_fees = pool.fee_basis_points
                  /\ stats.estimated_wait_time
                       = (IF short > 0 THEN short ELSE 0) * 5
    /\ (last.op = "get_coinjoin_stats" /\ last.pre_config[1] # "None"
            /\ SymbolToDenomination(last.args[1]) # "None") =>
          LET pool == GetPool(pools, SymbolToDenomination(last.args[1]))
              short == pool.minimum_pool_size - Len(pool.deposits)
          IN  /\ last.result = "Ok"
              /\ last.answer = <<Len(pool.deposits), pool.fee_basis_points,
                                 (IF short > 0 THEN short ELSE 0) * 5>>

\* the statistics of a pool that holds more deposits than it needs
C22_Witness ==
    /\ last.op = "get_coinjoin_stats"
    /\ last.result = "Ok"
    /\ last.answer = <<4, 10, 0>>

\* an amount of the model in stroops
InStroops(amount) == amount * 1000000

\* the latest invocation settled scenario S1: denomination 10_000_000, three
\* deposits with min_amount_out 9_000_000 and max_slippage_bps 50, every
\* read of the reserves answered (1_000_000_000, 1_000_000_000)
ScenarioS1 ==
    /\ SettledBySwap
    /\ last.denomination = "Small"
    /\ last.mix.reads = [rSel |-> <<1000, 1000>>, rPay |-> <<1000, 1000>>,
                         rSwap |-> <<1000, 1000>>]
    /\ Len(last.mix.pre) = 3
    /\ \A i \in 1..3 :
          /\ last.mix.pre[i].min_amount_out = 9
          /\ last.mix.pre[i].max_slippage_bps = 50
          /\ last.mix.pre[i].token_in = last.mix.pre[1].token_in
          /\ last.mix.pre[i].token_out = last.mix.pre[1].token_out

\* the output of the aggregated swap of the latest settlement in stroops:
\* the input side of the formula is a ratio, so that it may stay in the
\* units of the model, and the reserve of token_out is put in stroops
StroopsOut ==
    AmountOut(last.mix.total_input,
              ReserveIn(last.mix.reads.rSwap, last.mix.token_in),
              InStroops(ReserveOut(last.mix.reads.rSwap, last.mix.token_in)))

\* what scenario S1 ends in, for an aggregated output and a share in stroops
ScenarioS1Gives(out, share) ==
    /\ StroopsOut = out
    /\ StroopsOut \div Len(last.mix.selected) = share
    /\ InStroops(last.mix.total_output) <= out
    /\ out < InStroops(last.mix.total_output + 1)
    /\ last.mix.share = last.mix.total_output \div 3
    /\ Len(last.mix.selected) = 3
    /\ \A i \in 1..3 :
          last.mix.log[i + 2]
            = TransferEvent(last.mix.token_out, "mixer",
                            last.mix.pre[i].recipient_address, last.mix.share)
    /\ \A r \in Recipients :
          balances[last.mix.token_out][r]
            = last.pre_balances[last.mix.token_out][r]
                + last.mix.share
                    * Cardinality({i \in 1..3 : last.mix.pre[i].recipient_address = r})
    /\ GetPool(pools, "Small").deposits = <<>>

\* C23 as stated: in scenario S1 the aggregated output is 29_024_263, each of
\* the three recipients is credited 9_674_754 and the pool is empty
\* afterwards.
C23_ScenarioS1 ==
    ScenarioS1 => ScenarioS1Gives(29024263, 9674754)

\* C23: in scenario S1 the aggregated output is 29_041_372
\* (= floor(3 * 10^7 * 997 * 10^9 / (10^9 * 1000 + 3 * 10^7 * 997))), each of
\* the three recipients is credited 9_680_457 and the pool is empty
\* afterwards.
C23_ScenarioS1Amended ==
    ScenarioS1 => ScenarioS1Gives(29041372, 9680457)

\* scenario S1 has been settled with three recipients
C23_Witness ==
    /\ ScenarioS1
    /\ {last.mix.pre[i].recipient_address : i \in 1..3} = Recipients
    /\ last.mix.total_output = 29

\* ---- the calculator called on its own ----

\* the call is on a non-empty list of deposits of one pair
PayoutOnOnePair ==
    /\ last.op = "calculate_equal_payout"
    /\ last.args[2] # <<>>
    /\ \A i \in 1..Len(last.args[2]) :
          /\ last.args[2][i].token_in = last.args[2][1].token_in
          /\ last.args[2][i].token_out = last.args[2][1].token_out

RECURSIVE ExactTotalMin(_, _)
ExactTotalMin(deposits, i) ==
    IF i > Len(deposits) THEN Zero128
    ELSE IntAdd(deposits[i].min_amount_out, ExactTotalMin(deposits, i + 1))

\* the quantities of the payout formula in exact integers, for reserves
\* that are not negative and a positive denominator
ExactPayout(count, amount_per_deposit, reserve_in, reserve_out, deposits) ==
    LET total_input == IntMul(amount_per_deposit, IntOf(count))
        with_fee == IntMul(total_input, IntOf(997))
        numerator == IntMul(with_fee, reserve_out)
        scaled == IntMul(reserve_in, IntOf(1000))
        denominator == IntAdd(scaled, with_fee)
        total_output == IntDiv(numerator, denominator)
        equal_payout == IntDiv(total_output, IntOf(count))
        total_min == ExactTotalMin(deposits, 1)
        avg_min == IntDiv(total_min, IntOf(count))
        shortfall == IF IntLess(equal_payout, avg_min)
                     THEN IntSub(avg_min, equal_payout) ELSE Zero128
        scaled_shortfall == IntMul(shortfall, IntOf(10000))
    IN  [total_input |-> total_input, total_output |-> total_output,
         equal_payout |-> equal_payout,
         slippage_bps |-> IF avg_min = Zero128 THEN <<>>
                          ELSE IntDiv(scaled_shortfall, avg_min).mag,
         intermediates |-> <<total_input, with_fee, numerator, scaled, denominator,
                             total_min, scaled_shortfall>>]

\* the quantities for the list and the reserves of the latest call
ExactPayoutOfCall ==
    ExactPayout(Len(last.args[2]), DenominationValue128("Small"),
                ReserveIn(last.args[3], last.args[2][1].token_in),
                ReserveOut(last.args[3], last.args[2][1].token_in),
                InStroops128(last.args[2]))

\* an intermediate of the computation is outside the signed 128-bit range
PayoutExceedsI128 ==
    \E i \in 1..Len(ExactPayoutOfCall.intermediates) :
        ~InRange128(ExactPayoutOfCall.intermediates[i])

\* C24: when the product (|S|*D*997) * reserve_out, or another intermediate
\* of the payout computation, exceeds the signed 128-bit range, the
\* calculator returns InvalidInput: it returns no wrapped value and does
\* not abort the invocation.
C24_OverflowIsInvalidInput ==
    (PayoutOnOnePair /\ PayoutExceedsI128) => last.result = "InvalidInput"

\* ---- the selector called on its own ----

\* the sizes k of m..N whose candidate, the first k deposits in ascending
\* order of min_amount_out, qualifies at the reserves of the call
QualifyingSizes ==
    {k \in GetPool(pools, "Small").minimum_pool_size..Len(last.args[1]) :
        PrefixQualifies(AscendingByMin(last.args[1]), k, "Small", last.args[2])}

\* C25: find_optimal_participant_set fails with InvalidInput on an empty
\* list and with InsufficientBalance whenever no k of m..N gives a candidate
\* that qualifies, N < m included; it returns no set of fewer than m
\* deposits and leaves the stored pool as it was.
C25_SelectorFailures ==
    last.op = "find_optimal_participant_set" =>
        /\ last.args[1] = <<>> => last.result = "InvalidInput"
        /\ (last.args[1] # <<>> /\ QualifyingSizes = {})
               => last.result = "InsufficientBalance"
        /\ last.result = "Ok"
               => Len(last.answer[1]) >= GetPool(pools, "Small").minimum_pool_size
        /\ pools = last.pre_pools

\* C26: every successful mixing invocation, on either settlement path and for
\* every max_deposits cap (caps below minimum_pool_size and 0 included),
\* retires at least minimum_pool_size deposits: no successful result has an
\* anonymity set smaller than minimum_pool_size.
C26_AnonymitySetAtLeastMinimum ==
    Settled =>
        Len(last.mix.selected)
            >= GetPool(last.pre_pools, last.denomination).minimum_pool_size

\* C27: for every non-empty set S of deposits of one pair, denomination D and
\* reserves (Ri, Ro) with Ri > 0 and Ro >= 0, calculate_equal_payout returns
\* total_input = |S|*D, total_output = floor(|S|*D*997*Ro / (Ri*1000 +
\* |S|*D*997)), equal_payout = floor(total_output / |S|) and slippage_bps =
\* floor(max(0, avg_min - equal_payout) * 10000 / avg_min) with avg_min =
\* floor(sum of min_amount_out / |S|), or 0 when avg_min = 0.
C27_PayoutFormula ==
    PayoutOnOnePair =>
        \A exact \in {ExactPayoutOfCall} :
            /\ last.result = "Ok"
            /\ last.answer[1].total_input_amount = exact.total_input
            /\ last.answer[1].total_output_amount = exact.total_output
            /\ last.answer[1].equal_payout_amount = exact.equal_payout
            /\ last.answer[1].slippage_bps = exact.slippage_bps

\* ---- the sort called on its own ----

\* C28: sort_deposits_by_min_amount returns a permutation of its input that
\* is ascending in min_amount_out and stable: deposits with equal
\* min_amount_out keep their order of insertion.
C28_SortIsStablePermutation ==
    last.op = "sort_deposits_by_min_amount" =>
        LET input == last.args[1]
            sorted == last.answer[1]
            n == Len(input)
        IN  /\ Len(sorted) = n
            /\ \E p \in [1..n -> 1..n] :
                  /\ \A i, j \in 1..n : i # j => p[i] # p[j]
                  /\ \A i \in 1..n : sorted[i] = input[p[i]]
                  /\ \A i, j \in 1..n :
                        i < j =>
                          \/ sorted[i].min_amount_out < sorted[j].min_amount_out
                          \/ /\ sorted[i].min_amount_out = sorted[j].min_amount_out
                             /\ p[i] < p[j]

\* two deposits that ask for the same amount were followed by one that asks
\* for less: the sort moved it to the front and kept the two in their order
C28_Witness ==
    /\ last.op = "sort_deposits_by_min_amount"
    /\ Len(last.args[1]) = 3
    /\ last.args[1][1].min_amount_out = last.args[1][2].min_amount_out
    /\ last.args[1][3].min_amount_out < last.args[1][1].min_amount_out
    /\ last.answer[1] = <<last.args[1][3], last.args[1][1], last.args[1][2]>>

\* C29: within try_execute_batch_swap the external effects occur in the
\* order: the transfer of |S|*D token_in to the pair, the pair's swap, the
\* |S| payouts, and then the one write of the pruned pool; the stored pool
\* is not written before all external calls have returned.
C29_PoolWrittenAfterExternalCalls ==
    last.mix.path = "try_execute_batch_swap" =>
        LET calls == last.mix.log
            S == last.mix.selected
        IN  IF Settled
            THEN /\ Len(calls) = Len(S) + 2
                 /\ calls[1] = TransferEvent(last.mix.token_in, "mixer", "pair",
                                             Len(S) * DenominationValue(last.denomination))
                 /\ calls[2].kind = "swap"
                 /\ \A i \in 1..Len(S) :
                        calls[i + 2] = TransferEvent(last.mix.token_out, "mixer",
                                                     S[i].recipient_address,
                                                     last.mix.share)
                 /\ last.mix.pool_writes = <<Len(calls)>>
                 /\ GetPool(pools, last.denomination).deposits = last.mix.post
            ELSE last.mix.pool_writes = <<>>

\* a settlement of three deposits: five external calls, then the write
C29_Witness ==
    /\ SettledBySwap
    /\ Len(last.mix.selected) = 3
    /\ Len(last.mix.log) = 5
    /\ last.mix.pool_writes = <<5>>

\* b is a with some of its members left out
IsSubSeq(b, a) ==
    \E T \in SUBSET (1..Len(a)) : b = <<>> \o AtPositions(a, T)

\* the deposit is the one the latest private_swap call asked for
FromCall(deposit) ==
    /\ deposit.sender_address = last.call.user_address
    /\ deposit.recipient_address = last.call.receiving_address
    /\ deposit.token_in = last.call.token_in
    /\ deposit.token_out = last.call.token_out
    /\ deposit.min_amount_out = last.call.min_amount_out
    /\ deposit.max_slippage_bps = last.call.max_slippage_bps
    /\ deposit.timestamp = last.at

\* the latest invocation stored a deposit in the pool sym
AcceptedInto(sym) ==
    /\ last.op = "private_swap"
    /\ last.result = "Ok"
    /\ sym = DenominationSymbol(last.denomination)

\* the latest invocation was a successful mixing of the pool sym
RetiredFrom(sym) == Settled /\ sym = DenominationSymbol(last.denomination)

\* C30: each pool's deposits are, in the same order and with unchanged
\* fields, deposits that were accepted for its denomination: an invocation
\* leaves a pool as it was, except that a successful private_swap appends
\* one deposit at the tail and a successful mixing takes deposits out.
C30_PoolIsSubsequenceOfAccepted ==
    \A sym \in DOMAIN pools :
        LET before == IF sym \in DOMAIN last.pre_pools
                      THEN last.pre_pools[sym].deposits ELSE <<>>
            after == pools[sym].deposits
        IN  /\ (~AcceptedInto(sym) /\ ~RetiredFrom(sym)) => after = before
            /\ (AcceptedInto(sym) /\ ~RetiredFrom(sym)) =>
                   /\ Len(after) = Len(before) + 1
                   /\ SubSeq(after, 1, Len(before)) = before
                   /\ FromCall(after[Len(after)])
            /\ (~AcceptedInto(sym) /\ RetiredFrom(sym)) => IsSubSeq(after, before)
            /\ (AcceptedInto(sym) /\ RetiredFrom(sym)) =>
                   \/ IsSubSeq(after, before)
                   \/ /\ after # <<>>
                      /\ FromCall(after[Len(after)])
                      /\ IsSubSeq(SubSeq(after, 1, Len(after) - 1), before)

\* a private_swap stored its deposit and settled in the same invocation,
\* and the settlement left a deposit in the pool
C30_Witness ==
    \E sym \in DOMAIN pools :
        /\ AcceptedInto(sym)
        /\ RetiredFrom(sym)
        /\ pools[sym].deposits # <<>>
        /\ Len(pools[sym].deposits) < Len(last.pre_pools[sym].deposits) + 1

\* C31: every stored deposit d of a pool of denomination D has d.fee_paid =
\* floor(D * fee_basis_points / 10000), in stroops, and d.expiry_timestamp =
\* d.timestamp + 172_800 seconds, D being the amount that was transferred
\* from the depositor for the deposit.
C31_FeeAndExpiryOfDeposit ==
    \A sym \in DOMAIN pools :
        LET D == DenominationValue(SymbolToDenomination(sym))
        IN  /\ \A i \in 1..Len(pools[sym].deposits) :
                  /\ pools[sym].deposits[i].fee_paid
                       = D * 100 * pools[sym].fee_basis_points
                  /\ pools[sym].deposits[i].expiry_timestamp
                       = pools[sym].deposits[i].timestamp + 172800
            /\ AcceptedInto(sym) =>
                  /\ last.call.amount_in = D
                  /\ last.log[1] = TransferEvent(last.call.token_in,
                                                 last.call.user_address, "mixer", D)

\* a deposit of 10_000_000_000 stroops, made after the ledger has advanced,
\* is stored with a fee of 10_000_000 stroops
C31_Witness ==
    /\ AcceptedInto("10K")
    /\ pools["10K"].deposits # <<>>
    /\ pools["10K"].deposits[1].fee_paid = 10000000
    /\ pools["10K"].deposits[1].timestamp > 0

\* a step that is a call of request_withdrawal
RequestWithdrawalStep ==
    \E denomination \in WithdrawalDenominations :
        \E nullifier_hash \in WithdrawalNullifiers :
            RequestWithdrawalCall(denomination, nullifier_hash, "r1", "proof")

\* C32: request_withdrawal with a nullifier already recorded as used fails
\* with InvalidInput and changes no pool; a request that succeeds appends
\* exactly one withdrawal request carrying the nullifier to the pool, records
\* the nullifier as used, whatever the denomination (the record is never
\* removed, so a later request with it fails on every pool), and leaves the
\* pool's deposits as they were
C32_NullifierSpentOnce ==
    [][/\ nullifierUsed \subseteq nullifierUsed'
       /\ RequestWithdrawalStep =>
             LET sym == DenominationSymbol(last'.args[1])
                 n == last'.args[2]
             IN  /\ n \in nullifierUsed =>
                       /\ last'.result = "InvalidInput"
                       /\ pools' = pools
                 /\ last'.result = "Ok" =>
                       /\ n \notin nullifierUsed
                       /\ n \in nullifierUsed'
                       /\ Len(pools'[sym].withdrawals) = Len(pools[sym].withdrawals) + 1
                       /\ SubSeq(pools'[sym].withdrawals, 1, Len(pools[sym].withdrawals))
                             = pools[sym].withdrawals
                       /\ pools'[sym].withdrawals[Len(pools'[sym].withdrawals)].nullifier_hash = n
                       /\ pools'[sym].deposits = pools[sym].deposits]_vars

\* a request fails on the Medium pool with a nullifier that a request on
\* the Small pool recorded
C32_Witness ==
    /\ last.op = "request_withdrawal"
    /\ last.result = "InvalidInput"
    /\ last.args[1] = "Medium"
    /\ last.args[2] \in nullifierUsed
    /\ \E i \in 1..Len(pools["10"].withdrawals) :
          pools["10"].withdrawals[i].nullifier_hash = last.args[2]
    /\ pools["10"].deposits # <<>>

\* C33: a settlement that failed can be retried. When the latest invocation
\* is a retry (an execute_coinjoin_mixing call on the pool, or a private_swap
\* that succeeded and attempted the settlement at steady reserves) and the
\* pending deposits are of one pair, of at least minimum_pool_size distinct
\* senders, and jointly satisfied by the reserves, the invocation retires at
\* least minimum_pool_size deposits and pays every retired deposit its share
\* at its recipient address.
C33_SettlementCanBeRetried ==
    LET bySwap == /\ last.op = "private_swap"
                  /\ last.result = "Ok"
                  /\ last.mix.path = "try_execute_batch_swap"
                  /\ last.mix.reads.rSel = last.mix.reads.rPay
                  /\ last.mix.reads.rPay = last.mix.reads.rSwap
    IN  (bySwap \/ MixingCalled) =>
            LET pool == GetPool(last.pre_pools, last.denomination)
                pending == IF bySwap THEN last.mix.pre ELSE pool.deposits
                reserves == IF bySwap THEN last.mix.reads.rSel ELSE <<1000, 1000>>
                retired == Len(pending) - Len(GetPool(pools, last.denomination).deposits)
                Count(seq, Test(_)) == Cardinality({i \in DOMAIN seq : Test(seq[i])})
            IN  ( /\ Len(pending) >= pool.minimum_pool_size
                  /\ DistinctSenders(pending) >= pool.minimum_pool_size
                  /\ SamePair(pending)
                  /\ Feasible(pending, last.denomination, reserves) )
                => /\ last.result = "Ok"
                   /\ retired >= pool.minimum_pool_size
                   /\ \A r \in Recipients :
                          LET Mine(d) == d.recipient_address = r
                              Payout(e) == /\ e.kind = "transfer"
                                           /\ e.from = "mixer"
                                           /\ e.to = r
                                           /\ e.token = pending[1].token_out
                                           /\ e.amount > 0
                          IN  Count(pending, Mine)
                                  - Count(GetPool(pools, last.denomination).deposits, Mine)
                                <= Count(last.log, Payout)

\* C34: the token_in in the contract's custody follows the pending deposits
\* of every pool, D for each. Every committed invocation on a pool that adds
\* a entries and removes n receives exactly a * D of token_in from the
\* depositor and sends exactly n * D of token_in to the pair; with no
\* deposit pending at the start, custody = D * pending follows in every
\* reachable state.
C34_CustodyFollowsPendingDeposits ==
    ( /\ last.op \in {"private_swap", "execute_coinjoin_mixing"}
      /\ last.result = "Ok"
      /\ last.denomination # "None"
      /\ HasPool(last.pre_pools, last.denomination) )
    => LET D == DenominationValue(last.denomination)
           before == GetPool(last.pre_pools, last.denomination).deposits
           after == GetPool(pools, last.denomination).deposits
           added == IF last.op = "private_swap" THEN 1 ELSE 0
           removed == Len(before) + added - Len(after)
           ToPair(e) == e.kind = "transfer" /\ e.from = "mixer" /\ e.to = "pair"
           ToMixer(e) == e.kind = "transfer" /\ e.from \in Users /\ e.to = "mixer"
       IN  /\ SumAmounts(SelectSeq(last.log, ToMixer)) = added * D
           /\ SumAmounts(SelectSeq(last.log, ToPair)) = removed * D
           /\ \A t \in Tokens :
                  \A i \in 1..Len(last.log) :
                      ToPair(last.log[i]) /\ last.log[i].token = t
                          => \E j \in 1..Len(last.mix.selected) :
                                 last.mix.selected[j].token_in = t

SlippageLimits == {0, 50, 10000}

\* C36: for every candidate set and reserves, when the equal share is at
\* least min_amount_out of every deposit of the set the slippage_bps computed
\* is 0 (in the calculator on i128 amounts as well); and
\* find_optimal_participant_set answers alike, with the deposits at the same
\* places of the input, for inputs that differ only in max_slippage_bps.
C36_SlippageLimitsNeverDecide ==
    /\ last.op = "find_optimal_participant_set" =>
          LET deposits == last.args[1]
              reserves == last.args[2]
              n == Len(deposits)
              Without(list) == [i \in 1..Len(list) |->
                                   [list[i] EXCEPT !.max_slippage_bps = 0]]
          IN  /\ \A T \in SUBSET (1..n) :
                    \A info \in {CalculateEqualPayout(factoryAddr, "Small",
                                                      AtPositions(deposits, T),
                                                      reserves)} :
                        ( /\ info.ok
                          /\ \A i \in T :
                                info.equal_payout_amount >= deposits[i].min_amount_out )
                        => info.slippage_bps = 0
              /\ \A limits \in [1..n -> SlippageLimits] :
                    \A other \in {FindOptimalParticipantSet(
                                      pools, factoryAddr, "Small",
                                      [i \in 1..n |->
                                          [deposits[i] EXCEPT
                                              !.max_slippage_bps = limits[i]]],
                                      reserves)} :
                        /\ (IF other.ok THEN "Ok" ELSE other.err) = last.result
                        /\ Without(other.set) = Without(last.answer[1])
    /\ ( /\ last.op = "calculate_equal_payout"
         /\ last.result = "Ok"
         /\ \A i \in 1..Len(last.args[2]) :
                ~IntLess(last.answer[1].equal_payout_amount,
                         InStroops128(last.args[2])[i].min_amount_out) )
       => last.answer[1].slippage_bps = <<>>

\* the selector returned three deposits whose share is above the minimum of
\* one of them, which allows 50 bps
C36_Witness ==
    /\ last.op = "find_optimal_participant_set"
    /\ last.result = "Ok"
    /\ Len(last.answer[1]) = 3
    /\ \E i \in 1..3 :
          /\ last.answer[1][i].min_amount_out = 8
          /\ last.answer[1][i].max_slippage_bps = 50
    /\ CalculateEqualPayout(factoryAddr, "Small", last.answer[1],
                            last.args[2]).equal_payout_amount = 9

\* C37: when the settlement attempted by private_swap succeeds, the tokens
\* of the triggering call, which the settlement uses for the transfer of the
\* input to the pair and for the payouts, are the token_in and token_out of
\* every deposit of the settled set, also when the deposit of the triggering
\* call is not in the set.
C37_SettledSetIsOfTheCallsPair ==
    (SettledBySwap /\ last.op = "private_swap") =>
        LET call == last.call
            S == last.mix.selected
        IN  /\ \A i \in 1..Len(S) :
                  /\ S[i].token_in = call.token_in
                  /\ S[i].token_out = call.token_out
            /\ last.mix.token_in = call.token_in
            /\ last.mix.token_out = call.token_out
            /\ last.mix.log[1].kind = "transfer"
            /\ last.mix.log[1].token = call.token_in
            /\ last.mix.log[1].to = "pair"
            /\ \A i \in 1..Len(S) :
                  /\ last.mix.log[i + 2].kind = "transfer"
                  /\ last.mix.log[i + 2].token = call.token_out
                  /\ last.mix.log[i + 2].to = S[i].recipient_address

\* a settlement that left the deposit of the triggering call pending
C37_Witness ==
    /\ SettledBySwap
    /\ last.op = "private_swap"
    /\ Len(last.mix.selected) = 3
    /\ last.call.min_amount_out = 10
    /\ \A i \in 1..3 : last.mix.selected[i].min_amount_out = 9
    /\ \E i \in 1..Len(last.mix.post) :
          /\ last.mix.post[i].sender_address = last.call.user_address
          /\ last.mix.post[i].min_amount_out = 10

\* C38: private_swap, execute_coinjoin_mixing and request_withdrawal on one
\* denomination leave the stored pools of the other denominations (their
\* deposits, their withdrawals and their configuration) as they were.
C38_OtherPoolsUntouched ==
    [][\A sym \in DOMAIN pools :
           pools'[sym] # pools[sym] =>
               /\ last'.op \in {"private_swap", "execute_coinjoin_mixing",
                                "request_withdrawal"}
               /\ last'.denomination # "None"
               /\ sym = DenominationSymbol(last'.denomination)]_vars

\* the Medium pool holds a withdrawal request and the Small pool a deposit and
\* a request, after a mixing or a private_swap on the Small pool
C38_Witness ==
    /\ last.op \in {"private_swap", "execute_coinjoin_mixing"}
    /\ last.result = "Ok"
    /\ last.denomination = "Small"
    /\ pools # last.pre_pools
    /\ pools["100"].withdrawals # <<>>
    /\ pools["10"].withdrawals # <<>>

\* ---- the Solana program ----

\* C39: in every state of the Solana pool total_deposits - total_withdrawals
\* = current_pool_size and the vault holds current_pool_size * denomination;
\* a deposit raises current_pool_size and total_deposits by one and moves
\* denomination from the depositor to the vault; an execute_mixing that
\* succeeds has exactly current_pool_size recipients, moves denomination from
\* the vault to each of them, and sets current_pool_size to 0.
C39_PoolAccounting ==
    LET pool == solana.pool
        pre == last.pre_accounts
        Times(a) == Cardinality({i \in DOMAIN last.args[1] : last.args[1][i] = a})
    IN  /\ pool.initialized =>
              /\ pool.total_deposits - pool.total_withdrawals = pool.current_pool_size
              /\ solana.tokens["vault"] = pool.current_pool_size * pool.denomination
        /\ (last.op = "deposit" /\ last.result = "Ok") =>
              /\ pool.current_pool_size = pre.pool.current_pool_size + 1
              /\ pool.total_deposits = pre.pool.total_deposits + 1
              /\ solana.tokens["vault"] = pre.tokens["vault"] + pool.denomination
              /\ solana.tokens["depositor"]
                    = pre.tokens["depositor"] - pool.denomination
        /\ (last.op = "execute_mixing" /\ last.result = "Ok") =>
              /\ Len(last.args[1]) = pre.pool.current_pool_size
              /\ pool.current_pool_size = 0
              /\ \A a \in MintAccounts :
                    solana.tokens[a]
                      = pre.tokens[a] + Times(a) * pool.denomination
                          - (IF a = "vault"
                             THEN Len(last.args[1]) * pool.denomination ELSE 0)

\* C40: the pool never holds more than max_pool_size participants, and in
\* every state with current_pool_size >= min_pool_size an execute_mixing with
\* exactly current_pool_size recipients that hold token accounts of the mint
\* succeeds and leaves current_pool_size = 0.
C40_MixingStaysPossible ==
    solana.pool.initialized =>
        /\ solana.pool.current_pool_size <= solana.pool.max_pool_size
        /\ solana.pool.current_pool_size >= solana.pool.min_pool_size =>
              \A remaining_accounts \in
                     [1..solana.pool.current_pool_size -> {"ra", "rb"}] :
                  \A out \in {execute_mixing(solana, remaining_accounts)} :
                      /\ out.ok
                      /\ out.accounts.pool.current_pool_size = 0

====
